---- MODULE Spec2Model ----
(***************************************************************************)
(* Caps fixation of the Xilinx VPSS video scaler element                   *)
(* (gst_xlnx_video_scale_fixate_caps).  The function is modelled as an     *)
(* operator over records; the GLib/GStreamer helpers it calls are          *)
(* modelled by what they compute, with gint kept at 32 bits.               *)
(***************************************************************************)
EXTENDS Integers, Sequences, FiniteSets, TLC

(* ------------------------------------------------------------------ *)
(* Integer widths                                                      *)
(* ------------------------------------------------------------------ *)

\* G_MAXINT, the largest gint (32-bit signed).
G_MAXINT == 2147483647

\* 2^30, the weight of the top bit of a positive gint.
TopBit == G_MAXINT \div 2 + 1

(* An unsigned 64-bit value below 2^62 is kept as <<hi, lo>> with        *)
(* value = hi * 2^31 + lo and 0 <= lo < 2^31.                            *)
WideZero == <<0, 0>>

\* 2 * x
WideDouble(x) ==
    IF x[2] >= TopBit THEN <<2 * x[1] + 1, 2 * (x[2] - TopBit)>>
    ELSE <<2 * x[1], 2 * x[2]>>

\* x + n, for 0 <= n <= G_MAXINT
WideAdd(x, n) ==
    IF x[2] > G_MAXINT - n THEN <<x[1] + 1, (x[2] - (G_MAXINT - n)) - 1>>
    ELSE <<x[1], x[2] + n>>

WideLess(x, y) == x[1] < y[1] \/ (x[1] = y[1] /\ x[2] < y[2])

\* (r + s) mod c for 0 <= r, s < c, with the carry: <<carry, sum>>
AddMod(r, s, c) ==
    IF r >= c - s THEN <<1, r - (c - s)>> ELSE <<0, r + s>>

RECURSIVE MulDivBits(_, _, _, _, _, _, _)
(* floor(val * num / denom) by binary long multiplication over the bits  *)
(* of val, most significant first; q is the quotient so far and r the    *)
(* remainder, bitw the weight of the bit to process (0 when finished).   *)
(* The test on q[1] only makes each step evaluate its quotient.          *)
MulDivBits(val, qb, rb, denom, bitw, q, r) ==
    IF bitw = 0 \/ q[1] < 0 THEN q
    ELSE LET bit == (val \div bitw) % 2
             d2  == AddMod(r, r, denom)
             d3  == IF bit = 1 THEN AddMod(d2[2], rb, denom) ELSE <<0, d2[2]>>
             q2  == WideAdd(WideDouble(q), d2[1] + d3[1])
             q3  == IF bit = 1 THEN WideAdd(q2, qb) ELSE q2
         IN  MulDivBits(val, qb, rb, denom, bitw \div 2, q3, d3[2])

\* guint64 gst_util_uint64_scale_int (guint64 val, gint num, gint denom):
\* val * num / denom, truncated; exact in 64 bits for 0 <= val, num <= G_MAXINT.
gst_util_uint64_scale_int(val, num, denom) ==
    MulDivBits(val, num \div denom, num % denom, denom, TopBit, WideZero, 0)

\* The (guint) cast of a guint64 stored into a gint: the low 32 bits,
\* read as a two's complement number.
GuintToGint(x) ==
    IF x[1] % 2 = 1 THEN (x[2] - G_MAXINT) - 1 ELSE x[2]

\* w = (guint) gst_util_uint64_scale_int (val, num, den);
ScaleInt(val, num, den) == GuintToGint(gst_util_uint64_scale_int(val, num, den))

\* ((gint64) a) * b for 0 <= a, b <= G_MAXINT
Mul64(a, b) == gst_util_uint64_scale_int(a, b, 1)

RECURSIVE gst_util_greatest_common_divisor(_, _)
gst_util_greatest_common_divisor(a, b) ==
    IF b = 0 THEN a ELSE gst_util_greatest_common_divisor(b, a % b)

(* gboolean gst_util_fraction_multiply (a_n, a_d, b_n, b_d, &res_n, &res_d) *)
(* for positive operands: cross-reduce, refuse a product above G_MAXINT.     *)
gst_util_fraction_multiply(a_n, a_d, b_n, b_d) ==
    LET g1  == gst_util_greatest_common_divisor(a_n, a_d)
        an1 == a_n \div g1
        ad1 == a_d \div g1
        g2  == gst_util_greatest_common_divisor(b_n, b_d)
        bn1 == b_n \div g2
        bd1 == b_d \div g2
        g3  == gst_util_greatest_common_divisor(an1, bd1)
        an2 == an1 \div g3
        bd2 == bd1 \div g3
        g4  == gst_util_greatest_common_divisor(ad1, bn1)
        ad2 == ad1 \div g4
        bn2 == bn1 \div g4
    IN  IF G_MAXINT \div an2 < bn2 \/ G_MAXINT \div ad2 < bd2
        THEN [ok |-> FALSE, n |-> 0, d |-> 0]
        ELSE LET rn == an2 * bn2
                 rd == ad2 * bd2
                 g  == gst_util_greatest_common_divisor(rn, rd)
             IN  [ok |-> TRUE, n |-> rn \div g, d |-> rd \div g]

\* gboolean gst_video_calculate_display_ratio (&dar_n, &dar_d, video_width,
\*     video_height, video_par_n, video_par_d, display_par_n, display_par_d)
gst_video_calculate_display_ratio(vw, vh, vpn, vpd, dpn, dpd) ==
    LET t == gst_util_fraction_multiply(vw, vh, vpn, vpd)
    IN  IF ~t.ok THEN t ELSE gst_util_fraction_multiply(t.n, t.d, dpd, dpn)

(* ------------------------------------------------------------------ *)
(* GstStructure fields: width, height, pixel-aspect-ratio              *)
(* ------------------------------------------------------------------ *)

\* A G_TYPE_INT field, a GST_TYPE_INT_RANGE field.
IntVal(v) == [k |-> "int", lo |-> v, hi |-> v]
IntRange(lo, hi) == [k |-> "range", lo |-> lo, hi |-> hi]

\* No field, a GST_TYPE_FRACTION field, a GST_TYPE_FRACTION_RANGE field.
NoField == [k |-> "none", lo |-> <<0, 1>>, hi |-> <<0, 1>>]
Fraction(n, d) == [k |-> "fraction", lo |-> <<n, d>>, hi |-> <<n, d>>]
FractionRange(lo, hi) == [k |-> "range", lo |-> lo, hi |-> hi]

\* gst_structure_get_int: the value of a G_TYPE_INT field; the caller's
\* variable (initialised to 0) is left alone for any other type.
gst_structure_get_int(f) == IF f.k = "int" THEN f.lo ELSE 0

\* gst_structure_has_field (s, "pixel-aspect-ratio")
gst_structure_has_field(f) == f.k # "none"

\* gst_value_is_fixed on a fraction or a fraction range
gst_value_is_fixed(f) == f.k = "fraction"

\* gst_structure_fixate_field_nearest_int: an int field is left as it is,
\* a range is replaced by the target clamped into it.
gst_structure_fixate_field_nearest_int(f, target) ==
    IF f.k = "int" THEN f
    ELSE IntVal(IF target < f.lo THEN f.lo
                ELSE IF target > f.hi THEN f.hi ELSE target)

\* gst_util_fraction_compare (a, b) < 0, by 64-bit cross multiplication
FractionLess(a, b) == WideLess(Mul64(a[1], b[2]), Mul64(b[1], a[2]))

\* gst_value_set_fraction: the fraction is stored reduced
ReducedFraction(n, d) ==
    LET g == gst_util_greatest_common_divisor(n, d) IN <<n \div g, d \div g>>

\* gst_structure_fixate_field_nearest_fraction: a fraction field is left as
\* it is, a range is replaced by the (reduced) target clamped into it.
gst_structure_fixate_field_nearest_fraction(f, n, d) ==
    IF f.k = "fraction" THEN f
    ELSE LET t  == ReducedFraction(n, d)
             v1 == IF FractionLess(t, f.lo) THEN f.lo ELSE t
             v2 == IF FractionLess(f.hi, t) THEN f.hi ELSE v1
         IN  Fraction(v2[1], v2[2])

(* ------------------------------------------------------------------ *)
(* gst_xlnx_video_scale_fixate_caps                                    *)
(* ------------------------------------------------------------------ *)

\* What the call hands back: the returned othercaps structure, whether
\* GST_ELEMENT_ERROR (CORE, NEGOTIATION) was posted, and the place of the
\* "goto done" that ended the call.
Done(outs, path) == [caps |-> outs, error |-> FALSE, path |-> path]
Overflow(outs, path) == [caps |-> outs, error |-> TRUE, path |-> path]

\* from_par after the defaults: a missing PAR on the fixed side means 1/1.
DefaultFromPar(ins) ==
    IF gst_structure_has_field(ins.par) THEN ins.par ELSE Fraction(1, 1)

\* DefaultToPar with the reverse-direction default used on every pad: a
\* missing PAR on the structure to fixate is taken as 1/1.
DefaultToParFixed(direction, othercaps) ==
    IF gst_structure_has_field(othercaps.par) THEN othercaps.par
    ELSE Fraction(1, 1)

\* to_par after the defaults: from the sink pad a missing PAR is the range
\* 1/G_MAXINT .. G_MAXINT/1, otherwise it is 1/1.
DefaultToPar(direction, othercaps) ==
    IF gst_structure_has_field(othercaps.par) THEN othercaps.par
    ELSE IF direction = "SINK"
         THEN FractionRange(<<1, G_MAXINT>>, <<G_MAXINT, 1>>)
         ELSE Fraction(1, 1)

\* DefaultOuts without the gst_structure_set of the 1/1 default: the
\* structure goes into the case analysis as it was handed in.
DefaultOutsUnwritten(direction, othercaps) == othercaps

\* outs after the defaults: fixating from the source pad writes the 1/1
\* default into the structure itself.
DefaultOuts(direction, othercaps) ==
    IF direction # "SINK" /\ ~gst_structure_has_field(othercaps.par)
    THEN [othercaps EXCEPT !.par = Fraction(1, 1)]
    ELSE othercaps

\* SetParIfNeeded without its guard: the PAR is written in every case.
SetParAlways(outs, n, d) ==
    [outs EXCEPT !.par = Fraction(n, d)]

\* if (gst_structure_has_field (outs, "pixel-aspect-ratio") ||
\*     set_par_n != set_par_d) gst_structure_set (outs, "pixel-aspect-ratio", ...)
SetParIfNeeded(outs, n, d) ==
    IF gst_structure_has_field(outs.par) \/ n # d
    THEN [outs EXCEPT !.par = Fraction(n, d)]
    ELSE outs

\* FixateBothFixed with the fixed width and height passed in the wrong order
\* to the display-ratio computation.
FixateBothFixedSwapped(outs, to_par, from_w, from_h, from_par_n, from_par_d, w, h) ==
    IF gst_value_is_fixed(to_par) THEN Done(outs, "both_fixed")
    ELSE LET r == gst_video_calculate_display_ratio(from_w, from_h,
                      from_par_n, from_par_d, h, w)
         IN  IF ~r.ok THEN Done(outs, "both_fixed_overflow")
             ELSE IF gst_structure_has_field(outs.par)
             THEN Done([outs EXCEPT !.par =
                          gst_structure_fixate_field_nearest_fraction(
                              outs.par, r.n, r.d)], "both_fixed_par")
             ELSE IF r.n # r.d
             THEN Done([outs EXCEPT !.par = Fraction(r.n, r.d)], "both_fixed_par")
             ELSE Done(outs, "both_fixed_par")

\* FixateBothFixed without the test for a fixed to_par, the computed ratio
\* being written with gst_structure_set over whatever PAR the target had.
FixateBothFixedForcePar(outs, to_par, from_w, from_h, from_par_n, from_par_d, w, h) ==
    LET r == gst_video_calculate_display_ratio(from_w, from_h,
                 from_par_n, from_par_d, w, h)
    IN  IF ~r.ok THEN Done(outs, "both_fixed_overflow")
        ELSE Done([outs EXCEPT !.par = Fraction(r.n, r.d)], "both_fixed_par")

\* Width and height are both fixed: only the PAR may still be chosen.
FixateBothFixed(outs, to_par, from_w, from_h, from_par_n, from_par_d, w, h) ==
    IF gst_value_is_fixed(to_par) THEN Done(outs, "both_fixed")
    ELSE LET r == gst_video_calculate_display_ratio(from_w, from_h,
                      from_par_n, from_par_d, w, h)
         IN  IF ~r.ok THEN Done(outs, "both_fixed_overflow")
             ELSE IF gst_structure_has_field(outs.par)
             THEN Done([outs EXCEPT !.par =
                          gst_structure_fixate_field_nearest_fraction(
                              outs.par, r.n, r.d)], "both_fixed_par")
             ELSE IF r.n # r.d
             THEN Done([outs EXCEPT !.par = Fraction(r.n, r.d)], "both_fixed_par")
             ELSE Done(outs, "both_fixed_par")

\* The height is fixed, the width is not.
FixateHeightFixed(outs, to_par, from_w, from_dar_n, from_dar_d, h) ==
    IF gst_value_is_fixed(to_par)
    THEN LET m == gst_util_fraction_multiply(from_dar_n, from_dar_d,
                      to_par.lo[2], to_par.lo[1])
         IN  IF ~m.ok THEN Overflow(outs, "height_par_fixed")
             ELSE LET w == ScaleInt(h, m.n, m.d)
                  IN  Done([outs EXCEPT !.width =
                              gst_structure_fixate_field_nearest_int(outs.width, w)],
                           "height_par_fixed")
    ELSE LET set_w == gst_structure_get_int(
                          gst_structure_fixate_field_nearest_int(outs.width, from_w))
             p     == gst_util_fraction_multiply(from_dar_n, from_dar_d, h, set_w)
         IN  IF ~p.ok THEN Overflow(outs, "height_keep_width")
             ELSE LET tmp_par == IF gst_structure_has_field(outs.par)
                                 THEN outs.par ELSE to_par
                      set_par == gst_structure_fixate_field_nearest_fraction(
                                     tmp_par, p.n, p.d).lo
                  IN  IF set_par[1] = p.n /\ set_par[2] = p.d
                      THEN IF gst_structure_has_field(outs.par)
                              \/ set_par[1] # set_par[2]
                           THEN Done([outs EXCEPT !.width = IntVal(set_w),
                                        !.par = Fraction(set_par[1], set_par[2])],
                                     "height_keep_width")
                           ELSE Done(outs, "height_keep_width")
                      ELSE LET m == gst_util_fraction_multiply(from_dar_n,
                                        from_dar_d, set_par[2], set_par[1])
                           IN  IF ~m.ok THEN Overflow(outs, "height_scale_width")
                               ELSE LET w == ScaleInt(h, m.n, m.d)
                                    IN  Done(SetParIfNeeded(
                                          [outs EXCEPT !.width =
                                             gst_structure_fixate_field_nearest_int(
                                                 outs.width, w)],
                                          set_par[1], set_par[2]),
                                          "height_scale_width")

\* FixateWidthFixed scaling the width by num/den as the height-fixed case
\* scales the height, instead of by den/num.
FixateWidthFixedUnmirrored(outs, to_par, from_h, from_dar_n, from_dar_d, w) ==
    IF gst_value_is_fixed(to_par)
    THEN LET m == gst_util_fraction_multiply(from_dar_n, from_dar_d,
                      to_par.lo[2], to_par.lo[1])
         IN  IF ~m.ok THEN Overflow(outs, "width_par_fixed")
             ELSE LET h == ScaleInt(w, m.n, m.d)
                  IN  Done([outs EXCEPT !.height =
                              gst_structure_fixate_field_nearest_int(outs.height, h)],
                           "width_par_fixed")
    ELSE LET set_h == gst_structure_get_int(
                          gst_structure_fixate_field_nearest_int(outs.height, from_h))
             p     == gst_util_fraction_multiply(from_dar_n, from_dar_d, set_h, w)
         IN  IF ~p.ok THEN Overflow(outs, "width_keep_height")
             ELSE LET tmp_par == IF gst_structure_has_field(outs.par)
                                 THEN outs.par ELSE to_par
                      set_par == gst_structure_fixate_field_nearest_fraction(
                                     tmp_par, p.n, p.d).lo
                  IN  IF set_par[1] = p.n /\ set_par[2] = p.d
                      THEN IF gst_structure_has_field(outs.par)
                              \/ set_par[1] # set_par[2]
                           THEN Done([outs EXCEPT !.height = IntVal(set_h),
                                        !.par = Fraction(set_par[1], set_par[2])],
                                     "width_keep_height")
                           ELSE Done(outs, "width_keep_height")
                      ELSE LET m == gst_util_fraction_multiply(from_dar_n,
                                        from_dar_d, set_par[2], set_par[1])
                           IN  IF ~m.ok THEN Overflow(outs, "width_scale_height")
                               ELSE LET h == ScaleInt(w, m.n, m.d)
                                    IN  Done(SetParIfNeeded(
                                          [outs EXCEPT !.height =
                                             gst_structure_fixate_field_nearest_int(
                                                 outs.height, h)],
                                          set_par[1], set_par[2]),
                                          "width_scale_height")

\* The width is fixed, the height is not.
FixateWidthFixed(outs, to_par, from_h, from_dar_n, from_dar_d, w) ==
    IF gst_value_is_fixed(to_par)
    THEN LET m == gst_util_fraction_multiply(from_dar_n, from_dar_d,
                      to_par.lo[2], to_par.lo[1])
         IN  IF ~m.ok THEN Overflow(outs, "width_par_fixed")
             ELSE LET h == ScaleInt(w, m.d, m.n)
                  IN  Done([outs EXCEPT !.height =
                              gst_structure_fixate_field_nearest_int(outs.height, h)],
                           "width_par_fixed")
    ELSE LET set_h == gst_structure_get_int(
                          gst_structure_fixate_field_nearest_int(outs.height, from_h))
             p     == gst_util_fraction_multiply(from_dar_n, from_dar_d, set_h, w)
         IN  IF ~p.ok THEN Overflow(outs, "width_keep_height")
             ELSE LET tmp_par == IF gst_structure_has_field(outs.par)
                                 THEN outs.par ELSE to_par
                      set_par == gst_structure_fixate_field_nearest_fraction(
                                     tmp_par, p.n, p.d).lo
                  IN  IF set_par[1] = p.n /\ set_par[2] = p.d
                      THEN IF gst_structure_has_field(outs.par)
                              \/ set_par[1] # set_par[2]
                           THEN Done([outs EXCEPT !.height = IntVal(set_h),
                                        !.par = Fraction(set_par[1], set_par[2])],
                                     "width_keep_height")
                           ELSE Done(outs, "width_keep_height")
                      ELSE LET m == gst_util_fraction_multiply(from_dar_n,
                                        from_dar_d, set_par[2], set_par[1])
                           IN  IF ~m.ok THEN Overflow(outs, "width_scale_height")
                               ELSE LET h == ScaleInt(w, m.d, m.n)
                                    IN  Done(SetParIfNeeded(
                                          [outs EXCEPT !.height =
                                             gst_structure_fixate_field_nearest_int(
                                                 outs.height, h)],
                                          set_par[1], set_par[2]),
                                          "width_scale_height")

\* FixateParFixed whose last resort keeps the derived width itself instead
\* of the width the range allowed.
FixateParFixedRaw(outs, to_par, from_w, from_h, from_dar_n, from_dar_d) ==
    LET m == gst_util_fraction_multiply(from_dar_n, from_dar_d,
                 to_par.lo[1], to_par.lo[2])
    IN  IF ~m.ok THEN Overflow(outs, "par_fixed")
        ELSE LET set_h == gst_structure_get_int(
                     gst_structure_fixate_field_nearest_int(outs.height, from_h))
                 w     == ScaleInt(set_h, m.n, m.d)
                 set_w == gst_structure_get_int(
                     gst_structure_fixate_field_nearest_int(outs.width, w))
             IN  IF set_w = w
                 THEN Done([outs EXCEPT !.width = IntVal(set_w),
                              !.height = IntVal(set_h)], "par_keep_height")
                 ELSE LET f_h    == set_h
                          f_w    == set_w
                          set_w2 == gst_structure_get_int(
                              gst_structure_fixate_field_nearest_int(
                                  outs.width, from_w))
                          h      == ScaleInt(set_w2, m.d, m.n)
                          set_h2 == gst_structure_get_int(
                              gst_structure_fixate_field_nearest_int(
                                  outs.height, h))
                      IN  IF set_h2 = h
                          THEN Done([outs EXCEPT !.width = IntVal(set_w2),
                                       !.height = IntVal(set_h2)], "par_keep_width")
                          ELSE Done([outs EXCEPT !.width = IntVal(w),
                                       !.height = IntVal(f_h)], "par_nearest")

\* The target PAR is fixed, width and height are not.
FixateParFixed(outs, to_par, from_w, from_h, from_dar_n, from_dar_d) ==
    LET m == gst_util_fraction_multiply(from_dar_n, from_dar_d,
                 to_par.lo[1], to_par.lo[2])
    IN  IF ~m.ok THEN Overflow(outs, "par_fixed")
        ELSE LET set_h == gst_structure_get_int(
                     gst_structure_fixate_field_nearest_int(outs.height, from_h))
                 w     == ScaleInt(set_h, m.n, m.d)
                 set_w == gst_structure_get_int(
                     gst_structure_fixate_field_nearest_int(outs.width, w))
             IN  IF set_w = w
                 THEN Done([outs EXCEPT !.width = IntVal(set_w),
                              !.height = IntVal(set_h)], "par_keep_height")
                 ELSE LET f_h    == set_h
                          f_w    == set_w
                          set_w2 == gst_structure_get_int(
                              gst_structure_fixate_field_nearest_int(
                                  outs.width, from_w))
                          h      == ScaleInt(set_w2, m.d, m.n)
                          set_h2 == gst_structure_get_int(
                              gst_structure_fixate_field_nearest_int(
                                  outs.height, h))
                      IN  IF set_h2 = h
                          THEN Done([outs EXCEPT !.width = IntVal(set_w2),
                                       !.height = IntVal(set_h2)], "par_keep_width")
                          ELSE Done([outs EXCEPT !.width = IntVal(f_w),
                                       !.height = IntVal(f_h)], "par_nearest")

\* FixateNothingFixed deriving the reconciling PAR as DAR * set_w / set_h,
\* width and height exchanged.
FixateNothingFixedSwapped(outs, to_par, from_w, from_h, from_dar_n, from_dar_d) ==
    LET set_h == gst_structure_get_int(
                     gst_structure_fixate_field_nearest_int(outs.height, from_h))
        set_w == gst_structure_get_int(
                     gst_structure_fixate_field_nearest_int(outs.width, from_w))
        p     == gst_util_fraction_multiply(from_dar_n, from_dar_d, set_w, set_h)
    IN  IF ~p.ok THEN Overflow(outs, "free_keep_size")
        ELSE LET tmp_par == IF gst_structure_has_field(outs.par)
                            THEN outs.par ELSE to_par
                 set_par == gst_structure_fixate_field_nearest_fraction(
                                tmp_par, p.n, p.d).lo
             IN  IF set_par[1] = p.n /\ set_par[2] = p.d
                 THEN Done(SetParIfNeeded(
                        [outs EXCEPT !.width = IntVal(set_w),
                           !.height = IntVal(set_h)], set_par[1], set_par[2]),
                        "free_keep_size")
                 ELSE LET m == gst_util_fraction_multiply(from_dar_n, from_dar_d,
                                   set_par[2], set_par[1])
                      IN  IF ~m.ok THEN Overflow(outs, "free_scale_width")
                          ELSE LET w    == ScaleInt(set_h, m.n, m.d)
                                   tmp2 == gst_structure_get_int(
                                       gst_structure_fixate_field_nearest_int(
                                           outs.width, w))
                                   h    == ScaleInt(set_w, m.d, m.n)
                                   tmp3 == gst_structure_get_int(
                                       gst_structure_fixate_field_nearest_int(
                                           outs.height, h))
                               IN  IF tmp2 = w
                                   THEN Done(SetParIfNeeded(
                                          [outs EXCEPT !.width = IntVal(tmp2),
                                             !.height = IntVal(set_h)],
                                          set_par[1], set_par[2]),
                                          "free_scale_width")
                                   ELSE IF tmp3 = h
                                   THEN Done(SetParIfNeeded(
                                          [outs EXCEPT !.width = IntVal(set_w),
                                             !.height = IntVal(tmp3)],
                                          set_par[1], set_par[2]),
                                          "free_scale_height")
                                   ELSE Done(SetParIfNeeded(
                                          [outs EXCEPT !.width = IntVal(set_w),
                                             !.height = IntVal(set_h)],
                                          set_par[1], set_par[2]),
                                          "free_nearest")

\* Width, height and PAR are all not fixed.
FixateNothingFixed(outs, to_par, from_w, from_h, from_dar_n, from_dar_d) ==
    LET set_h == gst_structure_get_int(
                     gst_structure_fixate_field_nearest_int(outs.height, from_h))
        set_w == gst_structure_get_int(
                     gst_structure_fixate_field_nearest_int(outs.width, from_w))
        p     == gst_util_fraction_multiply(from_dar_n, from_dar_d, set_h, set_w)
    IN  IF ~p.ok THEN Overflow(outs, "free_keep_size")
        ELSE LET tmp_par == IF gst_structure_has_field(outs.par)
                            THEN outs.par ELSE to_par
                 set_par == gst_structure_fixate_field_nearest_fraction(
                                tmp_par, p.n, p.d).lo
             IN  IF set_par[1] = p.n /\ set_par[2] = p.d
                 THEN Done(SetParIfNeeded(
                        [outs EXCEPT !.width = IntVal(set_w),
                           !.height = IntVal(set_h)], set_par[1], set_par[2]),
                        "free_keep_size")
                 ELSE LET m == gst_util_fraction_multiply(from_dar_n, from_dar_d,
                                   set_par[2], set_par[1])
                      IN  IF ~m.ok THEN Overflow(outs, "free_scale_width")
                          ELSE LET w    == ScaleInt(set_h, m.n, m.d)
                                   tmp2 == gst_structure_get_int(
                                       gst_structure_fixate_field_nearest_int(
                                           outs.width, w))
                                   h    == ScaleInt(set_w, m.d, m.n)
                                   tmp3 == gst_structure_get_int(
                                       gst_structure_fixate_field_nearest_int(
                                           outs.height, h))
                               IN  IF tmp2 = w
                                   THEN Done(SetParIfNeeded(
                                          [outs EXCEPT !.width = IntVal(tmp2),
                                             !.height = IntVal(set_h)],
                                          set_par[1], set_par[2]),
                                          "free_scale_width")
                                   ELSE IF tmp3 = h
                                   THEN Done(SetParIfNeeded(
                                          [outs EXCEPT !.width = IntVal(set_w),
                                             !.height = IntVal(tmp3)],
                                          set_par[1], set_par[2]),
                                          "free_scale_height")
                                   ELSE Done(SetParIfNeeded(
                                          [outs EXCEPT !.width = IntVal(set_w),
                                             !.height = IntVal(set_h)],
                                          set_par[1], set_par[2]),
                                          "free_nearest")

\* GstCaps *gst_xlnx_video_scale_fixate_caps (base, direction, caps, othercaps):
\* ins is the structure of caps, othercaps the structure to fixate.
gst_xlnx_video_scale_fixate_caps(direction, ins, othercaps) ==
    LET from_par   == DefaultFromPar(ins)
        to_par     == DefaultToPar(direction, othercaps)
        outs       == DefaultOuts(direction, othercaps)
        from_par_n == from_par.lo[1]
        from_par_d == from_par.lo[2]
        from_w     == gst_structure_get_int(ins.width)
        from_h     == gst_structure_get_int(ins.height)
        w          == gst_structure_get_int(outs.width)
        h          == gst_structure_get_int(outs.height)
    IN  IF w # 0 /\ h # 0
        THEN FixateBothFixed(outs, to_par, from_w, from_h,
                 from_par_n, from_par_d, w, h)
        ELSE LET dar == gst_util_fraction_multiply(from_w, from_h,
                            from_par_n, from_par_d)
             IN  IF ~dar.ok THEN Overflow(outs, "input_dar")
                 ELSE IF h # 0
                 THEN FixateHeightFixed(outs, to_par, from_w, dar.n, dar.d, h)
                 ELSE IF w # 0
                 THEN FixateWidthFixed(outs, to_par, from_h, dar.n, dar.d, w)
                 ELSE IF gst_value_is_fixed(to_par)
                 THEN FixateParFixed(outs, to_par, from_w, from_h, dar.n, dar.d)
                 ELSE FixateNothingFixed(outs, to_par, from_w, from_h,
                          dar.n, dar.d)

(* ------------------------------------------------------------------ *)
(* The negotiation step as a state machine                             *)
(* ------------------------------------------------------------------ *)

\* direction: the pad the fixed caps come from; caps: the fixed structure;
\* othercaps: the structure to fixate, as handed in; result: what the call
\* returned; pc: "ready" before the call, "done" after it.
VARIABLES direction, caps, othercaps, result, pc

\* The KMS sink of the same pipeline. hold_extra_sample, last_buffer and
\* previous_last_buffer are the fields of GstKMSSink (0 is NULL); refs counts,
\* per buffer, the references the sink has taken and not released;
\* user_hold is what the application last wrote to the hold-extra-sample
\* property; displayed holds the last two buffers put on the plane since
\* then (0 where there was none); flow is what the last call returned.
VARIABLES hold_extra_sample, last_buffer, previous_last_buffer, refs,
          user_hold, displayed, flow

\* parent_meta: whether last_buffer carries a GstParentBufferMeta of an
\* upstream buffer (it was imported, not copied into a dumb buffer).
VARIABLES parent_meta

\* The sink's display geometry: the can-scale and force-modesetting
\* properties, the size of the CRTC mode, the rectangle frames are rendered
\* into, the rectangle the application last asked for, and whether a
\* renegotiation was requested for it.
VARIABLES can_scale, modesetting_enabled, hdisplay, vdisplay, render_rect,
          pending_rect, reconfigure

\* One call of gst_kms_sink_calculate_display_ratio: the video size and
\* PAR of the GstVideoInfo, the PAR of the display, the two outputs and
\* the return value ("none" before the call).
VARIABLES video_width, video_height, video_par, dpy_par, scaled_width,
          scaled_height, ratio_ret

\* The scaler hardware shared by the xlnxvideoscale instances: the class's
\* mutex (0 when free, else the instance holding it) and cached video
\* infos, per instance the position inside transform_frame, the frames it
\* was called with and what its last call returned ("none" during a call),
\* per frame-buffer IP the geometry of its latest successful
\* XSET_FB_CONFIGURE, the last ioctl issued on a frame-buffer IP, and how
\* the started transfer will end.
VARIABLES time_division_lock, in_vinfo, out_vinfo, hw_pc, frames, flow_ret,
          fb_configured, last_ioctl, transfer

scale_vars == <<direction, caps, othercaps, result, pc>>

sink_vars == <<hold_extra_sample, last_buffer, previous_last_buffer, refs,
               user_hold, displayed, flow, parent_meta>>

rect_vars == <<can_scale, modesetting_enabled, hdisplay, vdisplay,
               render_rect, pending_rect, reconfigure>>

ratio_vars == <<video_width, video_height, video_par, dpy_par, scaled_width,
                scaled_height, ratio_ret>>

hw_vars == <<time_division_lock, in_vinfo, out_vinfo, hw_pc, frames,
             flow_ret, fb_configured, last_ioctl, transfer>>

vars == <<scale_vars, sink_vars, rect_vars, ratio_vars, hw_vars>>

\* The buffers of the pool the sink is fed from.
MaxBuffers == 3

Buffers == 1 .. MaxBuffers

\* The sink as gst_kms_sink_init and the construct-time default of the
\* property leave it: nothing shown, nothing held.
SinkConstructed(hold) ==
    /\ hold_extra_sample = hold
    /\ user_hold = hold
    /\ last_buffer = 0
    /\ previous_last_buffer = 0
    /\ refs = [b \in Buffers |-> 0]
    /\ displayed = <<0, 0>>
    /\ flow = "OK"
    /\ parent_meta = FALSE

\* Small sizes 1 .. MaxSmall are used for sources and for ranges.
MaxSmall == 3

SmallSizes == 1 .. MaxSmall

SourceSizes ==
    (SmallSizes \X SmallSizes)
        \cup {<<720, 480>>, <<1920, 1080>>, <<G_MAXINT, 1>>, <<1, G_MAXINT>>}

SourcePars == {NoField, Fraction(1, 1), Fraction(10, 11), Fraction(2, 1)}

TargetWidths ==
    {IntVal(2), IntVal(1920), IntRange(1, MaxSmall), IntRange(2, MaxSmall),
     IntRange(1, 1920), IntRange(1, G_MAXINT)}

TargetHeights ==
    {IntVal(2), IntVal(576), IntVal(1080), IntVal(TopBit),
     IntRange(1, MaxSmall), IntRange(2, MaxSmall), IntRange(1, 1080),
     IntRange(1, G_MAXINT)}

TargetPars ==
    {NoField, Fraction(1, 1), Fraction(59, 54),
     FractionRange(<<1, 2>>, <<1, 1>>), FractionRange(<<1, 1>>, <<G_MAXINT, 1>>)}

Directions == {"SINK", "SRC"}

\* The fields of a structure other than width, height and PAR, which
\* fixate_caps never names: the format stands for all of them.
\* A GstVideoRectangle; all zero in a sink that was never started.
Rect(x, y, w, h) == [x |-> x, y |-> y, w |-> w, h |-> h]

NoRect == Rect(0, 0, 0, 0)

\* The display geometry of a constructed sink (gst_kms_sink_init and the
\* zeroed instance): no mode known yet, no rectangle asked for.
RectConstructed(scale, modeset) ==
    /\ can_scale = scale
    /\ modesetting_enabled = modeset
    /\ hdisplay = 0
    /\ vdisplay = 0
    /\ render_rect = NoRect
    /\ pending_rect = NoRect
    /\ reconfigure = FALSE

\* No call of gst_kms_sink_calculate_display_ratio was made.
RatioIdle ==
    /\ video_width = 1
    /\ video_height = 1
    /\ video_par = <<1, 1>>
    /\ dpy_par = <<1, 1>>
    /\ scaled_width = 0
    /\ scaled_height = 0
    /\ ratio_ret = "none"

\* The xlnxvideoscale instances sharing the VPSS and the two frame-buffer
\* IPs.
MaxInstances == 2

Instances == 1 .. MaxInstances

\* The frame-buffer write IP (/dev/fbwr) and read IP (/dev/fbrd).
FrameBufferIPs == {"fbwr", "fbrd"}

\* A GstVideoInfo as the cache compares it; the zeroed one of the class.
VideoInfo(format, width, height) ==
    [format |-> format, width |-> width, height |-> height]

NoInfo == VideoInfo("UNKNOWN", 0, 0)

NoFrames == [in |-> NoInfo, out |-> NoInfo]

NoIoctl == [ip |-> "none", request |-> "none", info |-> NoInfo, iret |-> 0]

\* The scaler class after class_init, no instance inside transform_frame.
HwIdle ==
    /\ time_division_lock = 0
    /\ in_vinfo = NoInfo
    /\ out_vinfo = NoInfo
    /\ hw_pc = [i \in Instances |-> "idle"]
    /\ frames = [i \in Instances |-> NoFrames]
    /\ flow_ret = [i \in Instances |-> "none"]
    /\ fb_configured = [ip \in FrameBufferIPs |-> NoInfo]
    /\ last_ioctl = NoIoctl
    /\ transfer = "none"

VideoFormat == "NV12"

NoResult(oc) == [caps |-> oc, error |-> FALSE, path |-> "none"]

Init ==
    /\ direction \in Directions
    /\ \E s \in SourceSizes, p \in SourcePars :
           caps = [width |-> IntVal(s[1]), height |-> IntVal(s[2]), par |-> p,
                   format |-> VideoFormat]
    /\ \E tw \in TargetWidths, th \in TargetHeights, tp \in TargetPars :
           othercaps = [width |-> tw, height |-> th, par |-> tp,
                        format |-> VideoFormat]
    /\ result = NoResult(othercaps)
    /\ pc = "ready"
    /\ SinkConstructed(FALSE)
    /\ RectConstructed(TRUE, FALSE)
    /\ RatioIdle
    /\ HwIdle

\* FixateCaps writing the 1/1 default of a missing PAR into the structure of
\* the fixed caps as well, as it does for the structure to fixate.
FixateCapsWritingSource ==
    /\ pc = "ready"
    /\ result' = gst_xlnx_video_scale_fixate_caps(direction, caps, othercaps)
    /\ caps' = [caps EXCEPT !.par = DefaultFromPar(caps)]
    /\ pc' = "done"
    /\ UNCHANGED <<direction, othercaps>>
    /\ UNCHANGED <<sink_vars, rect_vars, ratio_vars, hw_vars>>

\* The base transform calls fixate_caps once for the negotiation.
FixateCaps ==
    /\ pc = "ready"
    /\ result' = gst_xlnx_video_scale_fixate_caps(direction, caps, othercaps)
    /\ pc' = "done"
    /\ UNCHANGED <<direction, caps, othercaps>>
    /\ UNCHANGED <<sink_vars, rect_vars, ratio_vars, hw_vars>>

Next == FixateCaps

Spec == Init /\ [][Next]_vars

(* ------------------------------------------------------------------ *)
(* Reading the inputs and the returned structure                       *)
(* ------------------------------------------------------------------ *)

src_w == caps.width.lo
src_h == caps.height.lo
src_par == DefaultFromPar(caps).lo

WidthPreFixed == othercaps.width.k = "int"
HeightPreFixed == othercaps.height.k = "int"

\* The target PAR the case analysis works with.
EffectivePar == DefaultToPar(direction, othercaps)

\* The input DAR src_w/src_h * src_par, when it can be represented.
InputDar == gst_util_fraction_multiply(src_w, src_h, src_par[1], src_par[2])

\* The display-ratio computation of the both-fixed case overflows.
DisplayRatioOverflows ==
    /\ WidthPreFixed /\ HeightPreFixed
    /\ ~gst_value_is_fixed(EffectivePar)
    /\ ~gst_video_calculate_display_ratio(src_w, src_h, src_par[1], src_par[2],
            othercaps.width.lo, othercaps.height.lo).ok

\* Some ratio multiplication of the call could not be represented.
RatioOverflowed ==
    pc = "done" /\ (result.error \/ DisplayRatioOverflows)

(* C1: on every input on which no ratio multiplication overflows, the    *)
(* returned target has its width and its height fixed to single integers. *)
C1_DimensionsFixed ==
    (pc = "done" /\ ~RatioOverflowed)
        => (result.caps.width.k = "int" /\ result.caps.height.k = "int")

(* C3: whenever a ratio computation overflows, in any case, the both-fixed *)
(* case included, the call posts the negotiation error.                    *)
C3_OverflowReported ==
    RatioOverflowed => result.error

(* C4: whenever the call reports an overflow, the structure it hands back *)
(* is the structure it was given, in both directions.                     *)
C4_NoPartialResult ==
    (pc = "done" /\ result.error) => result.caps = othercaps

\* The derived width of the height-fixed, PAR-fixed branch (lines 710-717)
\* and the derived width of the first step of the PAR-fixed case (866-880),
\* as 64-bit values; WideZero where the branch is not taken.
DerivedWide ==
    IF ~InputDar.ok \/ ~gst_value_is_fixed(EffectivePar) \/ WidthPreFixed
    THEN WideZero
    ELSE IF HeightPreFixed
    THEN LET m == gst_util_fraction_multiply(InputDar.n, InputDar.d,
                      EffectivePar.lo[2], EffectivePar.lo[1])
         IN  IF m.ok
             THEN gst_util_uint64_scale_int(othercaps.height.lo, m.n, m.d)
             ELSE WideZero
    ELSE LET m == gst_util_fraction_multiply(InputDar.n, InputDar.d,
                      EffectivePar.lo[1], EffectivePar.lo[2])
             set_h == gst_structure_get_int(
                 gst_structure_fixate_field_nearest_int(othercaps.height, src_h))
         IN  IF m.ok THEN gst_util_uint64_scale_int(set_h, m.n, m.d)
             ELSE WideZero

\* The derived dimension does not fit a gint.
DerivedExceedsGint == DerivedWide[1] >= 1

(* C5: when a derived dimension exceeds the 32-bit signed range the call  *)
(* fails with the overflow error instead of using the wrapped value.      *)
C5_NoWrappedDimension ==
    (pc = "done" /\ DerivedExceedsGint) => result.error

\* A returned width or height against the constraint that was given.
IntInside(given, got) ==
    IF given.k = "int" THEN got = given
    ELSE \/ got = given
         \/ got.k = "int" /\ given.lo <= got.lo /\ got.lo <= given.hi

\* A returned PAR against the constraint that was given.
ParInside(given, got) ==
    IF given.k = "fraction" THEN got = given
    ELSE IF given.k = "none" THEN got.k \in {"none", "fraction"}
    ELSE \/ got = given
         \/ /\ got.k = "fraction"
            /\ ~FractionLess(got.lo, given.lo)
            /\ ~FractionLess(given.hi, got.lo)

(* C2: every width, height or PAR the call writes lies inside the        *)
(* constraint the target declared, and a value that was already fixed    *)
(* keeps its input value.                                                 *)
C2_WithinConstraints ==
    pc = "done" =>
        /\ IntInside(othercaps.width, result.caps.width)
        /\ IntInside(othercaps.height, result.caps.height)
        /\ ParInside(othercaps.par, result.caps.par)

\* A ranged width and a ranged PAR were both written, the PAR clamped.
C2_Witness ==
    /\ pc = "done"
    /\ result.path \in {"height_scale_width", "par_nearest", "free_nearest"}
    /\ othercaps.width.k = "range" /\ result.caps.width.k = "int"
    /\ othercaps.par.k = "range" /\ result.caps.par.k = "fraction"

RECURSIVE CancelOne(_, _)
\* a and the factors bs with every common divisor removed: <<a', bs'>>
CancelOne(a, bs) ==
    IF bs = <<>> THEN <<a, <<>>>>
    ELSE LET g == gst_util_greatest_common_divisor(a, Head(bs))
             r == CancelOne(a \div g, Tail(bs))
         IN  <<r[1], <<Head(bs) \div g>> \o r[2]>>

RECURSIVE ProductsEqual(_, _)
\* The product of the positive factors as equals the product of bs,
\* decided by cancelling common divisors (no product is formed).
ProductsEqual(as, bs) ==
    IF as = <<>> THEN \A i \in 1 .. Len(bs) : bs[i] = 1
    ELSE LET r == CancelOne(Head(as), bs)
         IN  r[1] = 1 /\ ProductsEqual(Tail(as), r[2])

\* The returned geometry has exactly the source DAR:
\* w * n * src_h * src_par_d = h * d * src_w * src_par_n, unset PAR read as 1/1.
ExactDar ==
    /\ result.caps.width.k = "int" /\ result.caps.height.k = "int"
    /\ result.caps.par.k # "range"
    /\ LET par == IF result.caps.par.k = "none" THEN <<1, 1>>
                  ELSE result.caps.par.lo
       IN  ProductsEqual(
               <<result.caps.width.lo, par[1], src_h, src_par[2]>>,
               <<result.caps.height.lo, par[2], src_w, src_par[1]>>)

(* C6, as stated, on the inputs where no ratio computation overflows: on *)
(* every input whose target width and height are both pre-fixed, the     *)
(* returned geometry has exactly the source DAR.                          *)
C6_BothFixedExactDar ==
    (pc = "done" /\ WidthPreFixed /\ HeightPreFixed /\ ~RatioOverflowed)
        => ExactDar

\* The PAR that reproduces the source DAR at the fixed width x height.
NeededPar ==
    gst_video_calculate_display_ratio(src_w, src_h, src_par[1], src_par[2],
        othercaps.width.lo, othercaps.height.lo)

\* The target's PAR is not fixed and admits the needed PAR.
ParAdmitsNeeded ==
    /\ ~gst_value_is_fixed(EffectivePar)
    /\ NeededPar.ok
    /\ ~FractionLess(<<NeededPar.n, NeededPar.d>>, EffectivePar.lo)
    /\ ~FractionLess(EffectivePar.hi, <<NeededPar.n, NeededPar.d>>)

(* C6, amended: with width and height both pre-fixed, the target PAR not *)
(* fixed, the display-ratio computation not overflowing and the target's *)
(* PAR constraint admitting DAR * h / w, the returned geometry has        *)
(* exactly the source DAR.                                                *)
C6_BothFixedExactDarWhenAdmitted ==
    (pc = "done" /\ WidthPreFixed /\ HeightPreFixed /\ ParAdmitsNeeded)
        => (ExactDar /\ ~result.error)

\* A ranged PAR was fixed to a needed PAR other than 1/1.
C6_Witness ==
    /\ pc = "done" /\ WidthPreFixed /\ HeightPreFixed /\ ParAdmitsNeeded
    /\ othercaps.par.k = "range"
    /\ result.caps.par.k = "fraction"
    /\ result.caps.par.lo # <<1, 1>>

\* p / q rounded to the nearest integer, halves up.
RoundDiv(p, q) == (p + q \div 2) \div q

Clamp(v, lo, hi) == IF v < lo THEN lo ELSE IF v > hi THEN hi ELSE v

\* Height fixed, PAR fixed, width ranged, all factors small enough for the
\* exact products h * src_w * src_par_n * p_d and src_h * src_par_d * p_n.
SmallHeightParFixed ==
    /\ HeightPreFixed /\ ~WidthPreFixed
    /\ gst_value_is_fixed(EffectivePar)
    /\ src_w <= 1920 /\ src_h <= 1920 /\ othercaps.height.lo <= 1080

(* C7: with height fixed at h, PAR fixed at p_n/p_d and width ranged, the *)
(* returned width is clamp(round(h * (src_w * src_par_n * p_d) /          *)
(* (src_h * src_par_d * p_n)), min, max), rounded to nearest.             *)
C7_RoundedWidth ==
    (pc = "done" /\ SmallHeightParFixed) =>
        result.caps.width =
            IntVal(Clamp(
                RoundDiv(othercaps.height.lo * src_w * src_par[1]
                             * EffectivePar.lo[2],
                         src_h * src_par[2] * EffectivePar.lo[1]),
                othercaps.width.lo, othercaps.width.hi))

\* Sink direction, source PAR 1/1 or absent, source size inside the ranged
\* target width and height, target PAR unset.
IdentityInput ==
    /\ direction = "SINK"
    /\ src_par = <<1, 1>>
    /\ othercaps.par.k = "none"
    /\ othercaps.width.k = "range" /\ othercaps.height.k = "range"
    /\ othercaps.width.lo <= src_w /\ src_w <= othercaps.width.hi
    /\ othercaps.height.lo <= src_h /\ src_h <= othercaps.height.hi

(* C8: on such an input the call returns exactly the source width and    *)
(* height with the PAR left unset, through the first (exact) branch.      *)
C8_Identity ==
    (pc = "done" /\ IdentityInput) =>
        /\ result.caps = [width |-> IntVal(src_w), height |-> IntVal(src_h),
                          par |-> NoField, format |-> VideoFormat]
        /\ ~result.error
        /\ result.path = "free_keep_size"

\* 1920x1080 into [1,1920] x [1,1080], as in the example.
C8_Witness ==
    /\ pc = "done" /\ IdentityInput
    /\ src_w = 1920 /\ src_h = 1080
    /\ othercaps.width = IntRange(1, 1920)
    /\ othercaps.height = IntRange(1, 1080)

\* A run with nothing fixed that went past the first attempt and ended
\* with an explicit PAR.
EndedInParFallback ==
    /\ pc = "done" /\ ~result.error
    /\ result.path \in {"free_scale_width", "free_scale_height", "free_nearest"}
    /\ result.caps.par.k = "fraction"

(* C9: when a run with nothing fixed ends in the explicit-PAR fallback   *)
(* with PAR p, the run with the target PAR fixed at p and the same width *)
(* and height ranges returns the same width and height.                   *)
C9_ParFixedAgrees ==
    EndedInParFallback =>
        LET r4 == gst_xlnx_video_scale_fixate_caps(direction, caps,
                      [othercaps EXCEPT !.par = result.caps.par])
        IN  /\ r4.caps.width = result.caps.width
            /\ r4.caps.height = result.caps.height

(* ------------------------------------------------------------------ *)
(* C11: default PAR when fixating from the sink pad                     *)
(* ------------------------------------------------------------------ *)

\* Every positive ratio a fraction of two gints can express.
AllRatios == FractionRange(<<1, G_MAXINT>>, <<G_MAXINT, 1>>)

\* The same call with the target declaring the range of all ratios.
WithAllRatios ==
    gst_xlnx_video_scale_fixate_caps("SINK", caps,
        [othercaps EXCEPT !.par = AllRatios])

\* The same call with the source declaring a PAR of 1/1.
WithSourcePar ==
    gst_xlnx_video_scale_fixate_caps("SINK",
        [caps EXCEPT !.par = Fraction(1, 1)], othercaps)

\* The PAR a returned structure stands for: an unset PAR means 1/1, a range
\* that was left alone stays a range.
ParMeant(c) == IF c.par.k = "none" THEN Fraction(1, 1) ELSE c.par

(* C11: fixating from the sink pad, a source without PAR gives exactly the *)
(* result of the same source with PAR 1/1; and a target without PAR goes     *)
(* through the same branch of the case analysis, with the same error status *)
(* and the same chosen PAR (unset standing for 1/1), as the same target      *)
(* declaring the range 1/G_MAXINT .. G_MAXINT/1: the missing PAR never       *)
(* makes the call fail or leave before the case analysis.                   *)
C11_DefaultParSink ==
    (pc = "done" /\ direction = "SINK") =>
        /\ caps.par.k = "none" => result = WithSourcePar
        /\ othercaps.par.k = "none" =>
              /\ result.path # "none"
              /\ result.error = WithAllRatios.error
              /\ result.path = WithAllRatios.path
              /\ \/ ParMeant(result.caps) = WithAllRatios.caps.par
                 \/ /\ result.caps.par = NoField
                    /\ WithAllRatios.caps.par = AllRatios

\* 720x480 with no PAR on either side into a fixed height of 576: the width
\* is kept and the PAR is derived inside the default range.
C11_Witness ==
    /\ pc = "done" /\ direction = "SINK"
    /\ caps.par.k = "none" /\ othercaps.par.k = "none"
    /\ src_w = 720 /\ src_h = 480
    /\ othercaps.height = IntVal(576)
    /\ result.path = "height_keep_width" /\ ~result.error
    /\ result.caps.par = Fraction(6, 5)

(* ------------------------------------------------------------------ *)
(* C12: default PAR when fixating from the source pad                   *)
(* ------------------------------------------------------------------ *)

\* The goto-done labels of the branches that work with a fixed target PAR:
\* both sizes fixed, the PAR-fixed halves of one size fixed, nothing fixed
\* but the PAR.
ParFixedPaths ==
    {"both_fixed", "height_par_fixed", "width_par_fixed",
     "par_fixed", "par_keep_height", "par_keep_width", "par_nearest"}

\* The same call with both defaults written out in the inputs.
WithExplicitPars ==
    gst_xlnx_video_scale_fixate_caps(direction,
        [caps EXCEPT !.par = Fraction(1, 1)],
        [othercaps EXCEPT !.par = Fraction(1, 1)])

(* C12: fixating from the source pad a target without PAR, the returned    *)
(* target always carries the explicit PAR 1/1, the call ends in one of the  *)
(* PAR-fixed branches (or at the overflow of the input display ratio,       *)
(* before any branch), never in the branch for a free PAR, and the result   *)
(* is the one of the same call with PAR 1/1 declared on the target; a       *)
(* source without PAR gives the result of a source with PAR 1/1.            *)
C12_DefaultParReverse ==
    (pc = "done" /\ direction # "SINK" /\ othercaps.par.k = "none") =>
        /\ result.caps.par = Fraction(1, 1)
        /\ result.path \in ParFixedPaths \cup {"input_dar"}
        /\ result.path = "input_dar" => result.error
        /\ result =
              gst_xlnx_video_scale_fixate_caps(direction, caps,
                  [othercaps EXCEPT !.par = Fraction(1, 1)])
        /\ caps.par.k = "none" => result = WithExplicitPars

\* 720x480 without PAR into ranges without PAR: the height is kept and the
\* width derived with the PAR fixed to 1/1.
C12_Witness ==
    /\ pc = "done" /\ direction = "SRC"
    /\ caps.par.k = "none" /\ othercaps.par.k = "none"
    /\ src_w = 720 /\ src_h = 480
    /\ othercaps.width = IntRange(1, 1920)
    /\ othercaps.height = IntRange(1, 1080)
    /\ result.path = "par_keep_height"
    /\ result.caps = [width |-> IntVal(720), height |-> IntVal(480),
                      par |-> Fraction(1, 1), format |-> VideoFormat]

(* ------------------------------------------------------------------ *)
(* C13: what the call may change                                        *)
(* ------------------------------------------------------------------ *)

(* C13: a step of fixate_caps leaves the fixed caps (the source geometry) *)
(* as they were, and the structure it returns differs from the target it   *)
(* was handed in at most in width, height and PAR: every other field has   *)
(* the value it had.                                                       *)
C13_Frame ==
    [][/\ caps' = caps
       /\ \A f \in (DOMAIN othercaps) \ {"width", "height", "par"} :
              result'.caps[f] = othercaps[f]
       /\ DOMAIN result'.caps = DOMAIN othercaps]_vars

\* A call on a source without PAR that changed all three fields it may
\* change.
C13_Witness ==
    /\ pc = "done" /\ caps.par.k = "none"
    /\ result.caps.width # othercaps.width
    /\ result.caps.height # othercaps.height
    /\ result.caps.par # othercaps.par
    /\ result.caps.format = othercaps.format

(* ------------------------------------------------------------------ *)
(* C15: the frame of the both-fixed case                                *)
(* ------------------------------------------------------------------ *)

(* C15: when the target's width and height are both pre-fixed, the call  *)
(* returns them as they were; and when the target declared a fixed PAR   *)
(* too, the whole target comes back unchanged, whatever the source is.   *)
C15_BothFixedFrame ==
    (pc = "done" /\ WidthPreFixed /\ HeightPreFixed) =>
        /\ result.caps.width = othercaps.width
        /\ result.caps.height = othercaps.height
        /\ othercaps.par.k = "fraction" => result.caps = othercaps

\* A fixed 1920x1080 target with PAR 59/54 and a source of another shape.
C15_Witness ==
    /\ pc = "done"
    /\ othercaps.width = IntVal(1920) /\ othercaps.height = IntVal(1080)
    /\ othercaps.par = Fraction(59, 54)
    /\ src_w = 720 /\ src_h = 480
    /\ result.path = "both_fixed"

(* ------------------------------------------------------------------ *)
(* C16: the PAR chosen in the both-fixed case                           *)
(* ------------------------------------------------------------------ *)

\* Width and height pre-fixed, the PAR free, and the PAR that reproduces
\* the source DAR representable.
BothFixedParFree ==
    /\ pc = "done" /\ WidthPreFixed /\ HeightPreFixed
    /\ ~gst_value_is_fixed(EffectivePar)
    /\ NeededPar.ok

\* The value of the target's PAR constraint nearest to the needed PAR: the
\* needed PAR itself inside the range, else the bound on its side.
NearestAllowedPar ==
    LET needed == <<NeededPar.n, NeededPar.d>>
    IN  IF FractionLess(needed, EffectivePar.lo) THEN EffectivePar.lo
        ELSE IF FractionLess(EffectivePar.hi, needed) THEN EffectivePar.hi
        ELSE needed

(* C16, as stated: with width and height pre-fixed and the PAR free, the  *)
(* returned PAR is the allowed value nearest to the needed PAR, and when  *)
(* that value is 1/1 the returned target carries no PAR field, whether or *)
(* not the target declared a PAR range.                                   *)
C16_NearestParUnsetWhenOne ==
    BothFixedParFree =>
        /\ ParMeant(result.caps) =
              Fraction(NearestAllowedPar[1], NearestAllowedPar[2])
        /\ NearestAllowedPar = <<1, 1>> => result.caps.par = NoField

(* C16, amended: with width and height pre-fixed, the PAR free and the    *)
(* needed PAR representable, a target that declared a PAR range gets the  *)
(* allowed value nearest to the needed PAR written as its PAR, 1/1        *)
(* included; a target that declared no PAR gets the needed PAR written,   *)
(* except that 1/1 is left unset.                                         *)
C16_NearestParWritten ==
    BothFixedParFree =>
        LET near == Fraction(NearestAllowedPar[1], NearestAllowedPar[2])
        IN  IF othercaps.par.k = "range" THEN result.caps.par = near
            ELSE IF NearestAllowedPar = <<1, 1>>
                 THEN result.caps.par = NoField
                 ELSE result.caps.par = near

\* A declared range whose nearest value to the needed PAR is its bound 1/1.
C16_Witness ==
    /\ BothFixedParFree
    /\ othercaps.par.k = "range"
    /\ <<NeededPar.n, NeededPar.d>> # <<1, 1>>
    /\ NearestAllowedPar = <<1, 1>>
    /\ result.caps.par = Fraction(1, 1)

(* ------------------------------------------------------------------ *)
(* C17: height fixed, PAR free, the accepting branch                    *)
(* ------------------------------------------------------------------ *)

\* The allowed width nearest to the source width.
NearestWidth == Clamp(src_w, othercaps.width.lo, othercaps.width.hi)

\* P = DAR * h / set_w, the PAR that keeps the source DAR at that width.
KeptWidthPar ==
    gst_util_fraction_multiply(InputDar.n, InputDar.d,
        othercaps.height.lo, NearestWidth)

\* Height fixed, width ranged, PAR free, and the target's PAR constraint
\* (or the default range) admits P exactly.
KeptWidthParAdmitted ==
    /\ pc = "done" /\ HeightPreFixed /\ ~WidthPreFixed
    /\ ~gst_value_is_fixed(EffectivePar)
    /\ InputDar.ok /\ KeptWidthPar.ok
    /\ ~FractionLess(<<KeptWidthPar.n, KeptWidthPar.d>>, EffectivePar.lo)
    /\ ~FractionLess(EffectivePar.hi, <<KeptWidthPar.n, KeptWidthPar.d>>)

(* C17: with the height fixed, the width ranged and the PAR free, when    *)
(* the target's PAR constraint admits P = DAR * h / set_w exactly, the    *)
(* call returns the width fixed to set_w and the PAR equal to P, unset    *)
(* only when P is 1/1 and the target declared no PAR; the case P = 1/1    *)
(* with no PAR declared is included.                                      *)
C17_KeepWidthAccepted ==
    KeptWidthParAdmitted =>
        /\ ~result.error
        /\ result.caps.width = IntVal(NearestWidth)
        /\ result.caps.height = othercaps.height
        /\ IF othercaps.par.k = "none" /\ KeptWidthPar.n = KeptWidthPar.d
           THEN result.caps.par = NoField
           ELSE result.caps.par = Fraction(KeptWidthPar.n, KeptWidthPar.d)

(* ------------------------------------------------------------------ *)
(* C18: the width-fixed case mirrors the height-fixed case              *)
(* ------------------------------------------------------------------ *)

\* A PAR field with numerators and denominators exchanged; the bounds of a
\* range change places.
InvertPar(f) ==
    IF f.k = "none" THEN f
    ELSE [k |-> f.k, lo |-> <<f.hi[2], f.hi[1]>>, hi |-> <<f.lo[2], f.lo[1]>>]

\* A structure with width and height exchanged and the PAR inverted.
Transpose(s) ==
    [s EXCEPT !.width = s.height, !.height = s.width, !.par = InvertPar(s.par)]

\* The goto-done label of the mirrored branch.
MirrorPath(p) ==
    CASE p = "height_par_fixed"    -> "width_par_fixed"
      [] p = "height_keep_width"   -> "width_keep_height"
      [] p = "height_scale_width"  -> "width_scale_height"
      [] OTHER -> p

(* C18: on every input with only the target height fixed, the call on the *)
(* transposed input (width and height exchanged in source and target, the *)
(* source PAR and the target PAR constraint inverted) returns the         *)
(* transpose of the result on the original input, through the mirrored    *)
(* branch and with the same overflow outcome.                             *)
C18_WidthFixedMirrors ==
    (pc = "done" /\ HeightPreFixed /\ ~WidthPreFixed) =>
        gst_xlnx_video_scale_fixate_caps(direction, Transpose(caps),
                Transpose(othercaps))
            = [caps  |-> Transpose(result.caps),
               error |-> result.error,
               path  |-> MirrorPath(result.path)]

\* A height-fixed input with a PAR range that does not admit the needed
\* PAR, so that the width was rescaled with the clamped PAR.
C18_Witness ==
    /\ pc = "done" /\ HeightPreFixed /\ ~WidthPreFixed
    /\ othercaps.par.k = "range"
    /\ result.path = "height_scale_width" /\ ~result.error
    /\ result.caps.width.k = "int"
    /\ result.caps.width.lo # result.caps.height.lo
    /\ result.caps.par.lo[1] # result.caps.par.lo[2]

(* ------------------------------------------------------------------ *)
(* Negotiations with a fixed target PAR and both sizes ranged           *)
(* ------------------------------------------------------------------ *)

ParFixedSources ==
    (SmallSizes \X SmallSizes) \cup {<<720, 480>>, <<1920, 1080>>}

ParFixedWidths ==
    {IntRange(1, MaxSmall), IntRange(2, MaxSmall), IntRange(1, 1920)}

ParFixedHeights ==
    {IntRange(1, MaxSmall), IntRange(2, MaxSmall), IntRange(1, 1080)}

ParFixedPars ==
    {Fraction(1, 1), Fraction(1, 2), Fraction(2, 1), Fraction(3, 2),
     Fraction(59, 54)}

InitParFixed ==
    /\ direction \in Directions
    /\ \E s \in ParFixedSources, p \in SourcePars :
           caps = [width |-> IntVal(s[1]), height |-> IntVal(s[2]), par |-> p,
                   format |-> VideoFormat]
    /\ \E tw \in ParFixedWidths, th \in ParFixedHeights, tp \in ParFixedPars :
           othercaps = [width |-> tw, height |-> th, par |-> tp,
                        format |-> VideoFormat]
    /\ result = NoResult(othercaps)
    /\ pc = "ready"
    /\ SinkConstructed(FALSE)
    /\ RectConstructed(TRUE, FALSE)
    /\ RatioIdle
    /\ HwIdle

SpecParFixed == InitParFixed /\ [][Next]_vars

(* ------------------------------------------------------------------ *)
(* C19: the PAR-fixed case keeps the DAR on an exact match              *)
(* ------------------------------------------------------------------ *)

\* The fixed target PAR p_n/p_d.
FixedPar == EffectivePar.lo

\* The call accepted the size derived from the kept height or width.
AcceptedParFixed ==
    /\ pc = "done" /\ ~WidthPreFixed /\ ~HeightPreFixed
    /\ gst_value_is_fixed(EffectivePar)
    /\ result.path \in {"par_keep_height", "par_keep_width"}

\* The dimension derived from the kept one is an exact integer: the kept
\* height times DAR/p, or the kept width times p/DAR, leaves no remainder,
\* and neither does the product the code took.
DerivedIsExact ==
    LET w == result.caps.width.lo
        h == result.caps.height.lo
    IN  IF result.path = "par_keep_height"
        THEN /\ (h * InputDar.n * FixedPar[2]) % (InputDar.d * FixedPar[1]) = 0
             /\ (h * InputDar.n * FixedPar[1]) % (InputDar.d * FixedPar[2]) = 0
        ELSE /\ (w * InputDar.d * FixedPar[1]) % (InputDar.n * FixedPar[2]) = 0
             /\ (w * InputDar.d * FixedPar[2]) % (InputDar.n * FixedPar[1]) = 0

(* C19: with the target PAR fixed at p_n/p_d and width and height ranged, *)
(* whenever the call accepts the height-preserving or the width-          *)
(* preserving candidate and the derived dimension is an exact integer,    *)
(* the returned w and h satisfy                                           *)
(* w * p_n * src_h * src_par_d = h * p_d * src_w * src_par_n.            *)
C19_ParFixedKeepsDar ==
    (AcceptedParFixed /\ DerivedIsExact) =>
        ProductsEqual(
            <<result.caps.width.lo, FixedPar[1], src_h, src_par[2]>>,
            <<result.caps.height.lo, FixedPar[2], src_w, src_par[1]>>)

(* ------------------------------------------------------------------ *)
(* C20: order of the candidates in the PAR-fixed case                   *)
(* ------------------------------------------------------------------ *)

\* The allowed height nearest to the source height.
NearestHeight == Clamp(src_h, othercaps.height.lo, othercaps.height.hi)

\* The width matching the height h at the fixed PAR: h * DAR / p, and the
\* height matching the width w: w * p / DAR, both truncated.
MatchingWidth(h) ==
    (h * InputDar.n * FixedPar[2]) \div (InputDar.d * FixedPar[1])

MatchingHeight(w) ==
    (w * InputDar.d * FixedPar[1]) \div (InputDar.n * FixedPar[2])

InsideRange(f, v) == f.lo <= v /\ v <= f.hi

\* The size the ordering of C20 selects.
SelectedSize ==
    LET h0 == NearestHeight
        w0 == MatchingWidth(h0)
        w1 == NearestWidth
        h1 == MatchingHeight(w1)
    IN  IF InsideRange(othercaps.width, w0) THEN <<w0, h0>>
        ELSE IF InsideRange(othercaps.height, h1) THEN <<w1, h1>>
        ELSE <<Clamp(w0, othercaps.width.lo, othercaps.width.hi), h0>>

(* C20: with the PAR fixed and both sizes ranged, the height-preserving   *)
(* candidate (h0 nearest the source height, the matching width derived    *)
(* from it) wins whenever its width is inside the width constraint;       *)
(* otherwise the width-preserving candidate (w1 nearest the source width, *)
(* the matching height derived from it) wins when its height is inside    *)
(* the height constraint; otherwise the result is h0 with the clamped     *)
(* derived width.                                                         *)
C20_ParFixedOrdering ==
    (pc = "done" /\ ~WidthPreFixed /\ ~HeightPreFixed
        /\ gst_value_is_fixed(EffectivePar) /\ InputDar.ok) =>
        /\ ~result.error
        /\ result.caps.width = IntVal(SelectedSize[1])
        /\ result.caps.height = IntVal(SelectedSize[2])

(* ------------------------------------------------------------------ *)
(* The KMS sink: the buffers it keeps after showing a frame             *)
(* ------------------------------------------------------------------ *)

\* gst_buffer_ref / gst_buffer_unref on the sink's own count; on NULL the
\* call returns at its g_return_if_fail.
gst_buffer_ref(r, b) == IF b = 0 THEN r ELSE [r EXCEPT ![b] = @ + 1]
gst_buffer_unref(r, b) == IF b = 0 THEN r ELSE [r EXCEPT ![b] = @ - 1]

\* gst_buffer_replace (&field, new) where the field holds old.
gst_buffer_replace(r, old, new) ==
    IF old = new THEN r
    ELSE gst_buffer_unref(gst_buffer_ref(r, new), old)

\* The scaler takes no part in the sink's runs.
ScalerIdle ==
    /\ direction = "SINK"
    /\ caps = [width |-> IntVal(1), height |-> IntVal(1), par |-> NoField,
               format |-> VideoFormat]
    /\ othercaps = caps
    /\ result = NoResult(othercaps)
    /\ pc = "done"

\* The property is G_PARAM_CONSTRUCT: the sink starts with the value the
\* application gave it, FALSE by default.
InitSink ==
    /\ ScalerIdle
    /\ \E hold \in BOOLEAN : SinkConstructed(hold)
    /\ RectConstructed(TRUE, FALSE)
    /\ RatioIdle
    /\ HwIdle

\* The tail of gst_kms_sink_show_frame from "Save the rendered buffer" to
\* the unref at bail, for the buffer the call shows (already referenced
\* once by the call): the sink's fields and counts after it.
SaveRenderedIn(r, last, prev, hold, buffer) ==
    LET r1 == gst_buffer_ref(r, buffer)
    IN  IF buffer # last
        THEN LET r2 == IF hold THEN gst_buffer_replace(r1, prev, last)
                       ELSE r1
                 r3 == gst_buffer_replace(r2, last, buffer)
             IN  [hold |-> hold,
                  last |-> buffer,
                  prev |-> IF hold THEN last ELSE prev,
                  refs |-> gst_buffer_unref(r3, buffer)]
        ELSE LET r3 == IF hold THEN gst_buffer_unref(r1, prev)
                       ELSE gst_buffer_unref(r1, last)
             IN  [hold |-> FALSE,
                  last |-> last,
                  prev |-> prev,
                  refs |-> gst_buffer_unref(r3, buffer)]

\* The same on the sink's current fields.
SaveRendered(buffer) ==
    SaveRenderedIn(refs, last_buffer, previous_last_buffer,
        hold_extra_sample, buffer)

\* No count goes below zero: the sink released only references it held.
Owned(r) == \A b \in Buffers : r[b] >= 0

\* gst_kms_sink_show_frame (vsink, buf) with buf given (0 for a redraw of
\* last_buffer) and shown telling whether the frame reached the plane or
\* the call left through bail before saving anything.
gst_kms_sink_show_frame(buf, shown) ==
    LET buffer == IF buf # 0 THEN buf ELSE last_buffer
        after  == SaveRendered(buffer)
    IN  IF buffer = 0 \/ ~shown
        THEN /\ flow' = "ERROR"
             /\ UNCHANGED <<hold_extra_sample, last_buffer,
                            previous_last_buffer, refs, displayed>>
        ELSE IF ~Owned(after.refs)
        THEN /\ flow' = "UNDEFINED"
             /\ UNCHANGED <<hold_extra_sample, last_buffer,
                            previous_last_buffer, refs, displayed>>
        ELSE /\ flow' = "OK"
             /\ hold_extra_sample' = after.hold
             /\ last_buffer' = after.last
             /\ previous_last_buffer' = after.prev
             /\ refs' = after.refs
             /\ displayed' = IF buffer # last_buffer
                             THEN <<displayed[2], buffer>>
                             ELSE displayed

\* A release of a reference the sink does not hold is where the model stops
\* following the sink.
Running == flow # "UNDEFINED"

\* The base sink renders a buffer from upstream: one the sink holds no
\* reference to, so that the pool could hand it out.
\* drmModeSetPlane refusing the plane: a sink that believed it could scale
\* stops believing it and tries again.
PlaneScaling(buffer, refused) ==
    IF buffer # 0 /\ refused THEN FALSE ELSE can_scale

ShowFrame ==
    /\ Running
    /\ \E buf \in Buffers, shown \in BOOLEAN, meta \in BOOLEAN,
          refused \in BOOLEAN :
          /\ refs[buf] = 0
          /\ gst_kms_sink_show_frame(buf, shown)
          /\ parent_meta' = IF last_buffer' = buf THEN meta ELSE parent_meta
          /\ can_scale' = PlaneScaling(buf, refused)
    /\ UNCHANGED <<user_hold, scale_vars, ratio_vars, hw_vars>>
    /\ UNCHANGED <<modesetting_enabled, hdisplay, vdisplay, render_rect,
                   pending_rect, reconfigure>>

\* gst_kms_sink_expose: the application asks for a redraw.
\* Without scaling and with no renegotiation pending the rectangle asked
\* for is applied first.
Expose ==
    /\ Running
    /\ render_rect' = IF ~can_scale /\ ~reconfigure THEN pending_rect
                      ELSE render_rect
    /\ \E shown \in BOOLEAN, refused \in BOOLEAN :
          /\ gst_kms_sink_show_frame(0, shown)
          /\ can_scale' = PlaneScaling(last_buffer, refused)
    /\ UNCHANGED <<user_hold, parent_meta, scale_vars, ratio_vars, hw_vars>>
    /\ UNCHANGED <<modesetting_enabled, hdisplay, vdisplay, pending_rect,
                   reconfigure>>

\* gst_kms_sink_set_property, PROP_HOLD_EXTRA_SAMPLE.
SetHoldExtraSample ==
    /\ Running
    /\ \E value \in BOOLEAN :
          /\ hold_extra_sample' = value
          /\ user_hold' = value
          /\ displayed' = IF ~value THEN <<0, 0>>
                          ELSE IF user_hold THEN displayed
                          ELSE <<0, last_buffer>>
    /\ UNCHANGED <<last_buffer, previous_last_buffer, refs, flow, parent_meta,
                   scale_vars, rect_vars, ratio_vars, hw_vars>>

\* gst_kms_sink_stop: the buffers are given back.
Stop ==
    /\ Running
    /\ LET r1 == gst_buffer_replace(refs, last_buffer, 0)
           r2 == IF hold_extra_sample
                 THEN gst_buffer_replace(r1, previous_last_buffer, 0)
                 ELSE r1
       IN  IF Owned(r2)
           THEN /\ refs' = r2
                /\ last_buffer' = 0
                /\ previous_last_buffer' =
                      IF hold_extra_sample THEN 0 ELSE previous_last_buffer
                /\ displayed' = <<0, 0>>
                /\ flow' = "OK"
                /\ parent_meta' = FALSE
                /\ hdisplay' = 0
                /\ vdisplay' = 0
                /\ pending_rect' = NoRect
                /\ render_rect' = NoRect
           ELSE /\ flow' = "UNDEFINED"
                /\ UNCHANGED <<last_buffer, previous_last_buffer, refs,
                               displayed, parent_meta, hdisplay, vdisplay,
                               pending_rect, render_rect>>
    /\ UNCHANGED <<hold_extra_sample, user_hold, can_scale,
                   modesetting_enabled, reconfigure>>
    /\ UNCHANGED <<scale_vars, ratio_vars, hw_vars>>

\* gst_kms_sink_drain, on an allocation or drain query, for a last_buffer
\* imported from upstream: the frame is copied into a dumb buffer (0 when
\* the copy failed), which becomes last_buffer with an additional
\* reference, is shown by a redraw, and the imported buffer is released.
\* In the record of displayed buffers the copy takes the place of the
\* buffer it was made from.
Drain ==
    /\ Running
    /\ last_buffer # 0
    /\ parent_meta
    /\ \E dumb_buf \in Buffers \cup {0}, shown \in BOOLEAN,
          refused \in BOOLEAN :
          /\ dumb_buf # 0 => refs[dumb_buf] = 0
          /\ LET r1    == gst_buffer_ref(gst_buffer_ref(refs, dumb_buf),
                               dumb_buf)
                 after == IF dumb_buf # 0 /\ shown
                          THEN SaveRenderedIn(r1, dumb_buf,
                                   previous_last_buffer, hold_extra_sample,
                                   dumb_buf)
                          ELSE [hold |-> hold_extra_sample,
                                last |-> dumb_buf,
                                prev |-> previous_last_buffer,
                                refs |-> r1]
                 r2    == gst_buffer_unref(after.refs, last_buffer)
             IN  IF Owned(r2)
                 THEN /\ refs' = r2
                      /\ last_buffer' = after.last
                      /\ previous_last_buffer' = after.prev
                      /\ hold_extra_sample' = after.hold
                      /\ parent_meta' = FALSE
                      /\ displayed' =
                            <<IF displayed[1] = last_buffer THEN dumb_buf
                              ELSE displayed[1],
                              IF displayed[2] = last_buffer THEN dumb_buf
                              ELSE displayed[2]>>
                      /\ can_scale' = PlaneScaling(dumb_buf, refused)
                      /\ UNCHANGED flow
                 ELSE /\ flow' = "UNDEFINED"
                      /\ UNCHANGED <<refs, last_buffer, previous_last_buffer,
                                     hold_extra_sample, parent_meta,
                                     displayed, can_scale>>
    /\ UNCHANGED <<user_hold, scale_vars, ratio_vars, hw_vars>>
    /\ UNCHANGED <<modesetting_enabled, hdisplay, vdisplay, render_rect,
                   pending_rect, reconfigure>>

NextSink == ShowFrame \/ Expose \/ SetHoldExtraSample \/ Stop \/ Drain

SpecSink == InitSink /\ [][NextSink]_vars

(* C14: while the application has the hold-extra-sample property enabled, *)
(* after any sequence of frames shown and redraws the property is still   *)
(* enabled in the sink and the sink holds a reference to each of the last *)
(* two buffers it displayed.                                              *)
C14_HoldsLastTwo ==
    (Running /\ user_hold) =>
        /\ hold_extra_sample
        /\ \A i \in 1 .. 2 : displayed[i] # 0 => refs[displayed[i]] >= 1

(* ------------------------------------------------------------------ *)
(* C21, C22: the stages of the case with nothing fixed                  *)
(* ------------------------------------------------------------------ *)

\* Width, height and PAR are all free, the input DAR is representable, and
\* the sizes are small enough for the exact products below.
NothingFixedSmall ==
    /\ pc = "done" /\ ~WidthPreFixed /\ ~HeightPreFixed
    /\ ~gst_value_is_fixed(EffectivePar)
    /\ InputDar.ok
    /\ src_w <= 1920 /\ src_h <= 1080
    /\ othercaps.width.lo <= 1920 /\ othercaps.height.lo <= 1080

\* Stage a: the width derived from h0 and the source DAR, truncated.
StageAWidth == (NearestHeight * InputDar.n) \div InputDar.d

\* Stage b: the height derived from w1 and the source DAR, truncated.
StageBHeight == (NearestWidth * InputDar.d) \div InputDar.n

StageAFits == InsideRange(othercaps.width, StageAWidth)
StageBFits == InsideRange(othercaps.height, StageBHeight)

\* The returned PAR is unset or the default 1/1.
ParLeftDefault == result.caps.par \in {NoField, Fraction(1, 1)}

(* C21: with width, height and PAR all free, whenever the width w0        *)
(* derived from h0 (the allowed height nearest the source height) and the *)
(* source DAR lies inside the width constraint, the call returns w0 x h0  *)
(* with the PAR left unset or default, whatever the source PAR is.        *)
C21_StageAFirst ==
    (NothingFixedSmall /\ StageAFits) =>
        /\ ~result.error
        /\ result.caps.width = IntVal(StageAWidth)
        /\ result.caps.height = IntVal(NearestHeight)
        /\ ParLeftDefault

(* C22: with nothing fixed, when stage a fails but the height derived     *)
(* from w1 (the allowed width nearest the source width) and the source    *)
(* DAR lies inside the height constraint, the call returns w1 x that      *)
(* height with the PAR left unset; and a PAR other than 1/1 is written    *)
(* only when neither stage a nor stage b gives an exact size.             *)
C22_ParNegotiationLast ==
    NothingFixedSmall =>
        /\ (~StageAFits /\ StageBFits) =>
              /\ ~result.error
              /\ result.caps.width = IntVal(NearestWidth)
              /\ result.caps.height = IntVal(StageBHeight)
              /\ ParLeftDefault
        /\ (~result.error /\ ~ParLeftDefault) => (~StageAFits /\ ~StageBFits)

(* ------------------------------------------------------------------ *)
(* C23: exact PAR reconciliation with nothing fixed                     *)
(* ------------------------------------------------------------------ *)

\* P = DAR * set_h / set_w for the allowed sizes nearest the source.
KeptSizePar ==
    gst_util_fraction_multiply(InputDar.n, InputDar.d,
        NearestHeight, NearestWidth)

\* Nothing fixed, and the target's PAR constraint (or the default range)
\* admits P exactly.
KeptSizeParAdmitted ==
    /\ pc = "done" /\ ~WidthPreFixed /\ ~HeightPreFixed
    /\ ~gst_value_is_fixed(EffectivePar)
    /\ InputDar.ok /\ KeptSizePar.ok
    /\ ~FractionLess(<<KeptSizePar.n, KeptSizePar.d>>, EffectivePar.lo)
    /\ ~FractionLess(EffectivePar.hi, <<KeptSizePar.n, KeptSizePar.d>>)

(* C23: with nothing fixed, whenever the target's PAR constraint admits   *)
(* P = DAR * set_h / set_w exactly, the call returns set_w x set_h with   *)
(* PAR P, unset only when P is 1/1 and the target declared no PAR, and    *)
(* the returned geometry has exactly the source DAR.                      *)
C23_ExactParReconciliation ==
    KeptSizeParAdmitted =>
        /\ ~result.error
        /\ result.caps.width = IntVal(NearestWidth)
        /\ result.caps.height = IntVal(NearestHeight)
        /\ IF othercaps.par.k = "none" /\ KeptSizePar.n = KeptSizePar.d
           THEN result.caps.par = NoField
           ELSE result.caps.par = Fraction(KeptSizePar.n, KeptSizePar.d)
        /\ ExactDar

\* Both sizes clamped by their ranges and a PAR other than 1/1 written into
\* a declared range.
C23_Witness ==
    /\ KeptSizeParAdmitted
    /\ othercaps.par.k = "range"
    /\ NearestWidth # src_w /\ NearestHeight # src_h
    /\ NearestWidth # NearestHeight
    /\ result.caps.par.k = "fraction"
    /\ result.caps.par.lo # <<1, 1>>
    /\ result.path = "free_keep_size"

(* ------------------------------------------------------------------ *)
(* C24: the result is a fixed point                                     *)
(* ------------------------------------------------------------------ *)

\* The call succeeded and fixed both sizes.
SucceededFullyFixed ==
    /\ pc = "done" /\ ~result.error
    /\ result.caps.width.k = "int" /\ result.caps.height.k = "int"

\* The same call with the returned target handed in as the target.
Refixated == gst_xlnx_video_scale_fixate_caps(direction, caps, result.caps)

(* C24: whenever the call succeeds with width and height fixed, running   *)
(* it again in the same direction with the same source and the returned   *)
(* target as the target returns that target unchanged: the same width and *)
(* height, and the PAR present or absent as before with the same value.   *)
C24_FixedPoint ==
    SucceededFullyFixed =>
        /\ Refixated.caps = result.caps
        /\ ~Refixated.error

\* A first run through the case with nothing fixed that left the PAR unset;
\* the second run works the PAR out again from the two fixed sizes.
C24_Witness ==
    /\ SucceededFullyFixed
    /\ othercaps.width.k = "range" /\ othercaps.height.k = "range"
    /\ result.caps.par = NoField
    /\ src_w # src_h
    /\ Refixated.path = "both_fixed_par"

(* ------------------------------------------------------------------ *)
(* The KMS sink: the size a video is displayed at                       *)
(* ------------------------------------------------------------------ *)

\* gst_kms_sink_calculate_display_ratio (self, vinfo, &scaled_width,
\* &scaled_height) with scale the can_scale field and dpar the display PAR
\* gst_video_calculate_device_ratio returned; on FALSE the outputs are not
\* written.
gst_kms_sink_calculate_display_ratio(scale, vw, vh, vpar, dpar) ==
    IF ~scale THEN [ret |-> TRUE, width |-> vw, height |-> vh]
    ELSE LET dar == gst_video_calculate_display_ratio(vw, vh, vpar[1],
                        vpar[2], dpar[1], dpar[2])
         IN  IF ~dar.ok THEN [ret |-> FALSE, width |-> 0, height |-> 0]
             ELSE IF vh % dar.d = 0
             THEN [ret |-> TRUE, width |-> ScaleInt(vh, dar.n, dar.d),
                   height |-> vh]
             ELSE IF vw % dar.n = 0
             THEN [ret |-> TRUE, width |-> vw,
                   height |-> ScaleInt(vw, dar.d, dar.n)]
             ELSE [ret |-> TRUE, width |-> ScaleInt(vh, dar.n, dar.d),
                   height |-> vh]

\* The video sizes and PARs and the display PARs the call is made with.
RatioWidths == {640, 720, 1920}
RatioHeights == {480, 481, 1080}
RatioVideoPars == {<<1, 1>>, <<10, 11>>, <<4, 3>>, <<2000000, 1>>,
                   <<G_MAXINT, 1>>}
RatioDisplayPars == {<<1, 1>>, <<16, 15>>, <<4, 3>>}

InitDisplayRatio ==
    /\ ScalerIdle
    /\ SinkConstructed(FALSE)
    /\ \E scale \in BOOLEAN : RectConstructed(scale, FALSE)
    /\ HwIdle
    /\ video_width \in RatioWidths
    /\ video_height \in RatioHeights
    /\ video_par \in RatioVideoPars
    /\ dpy_par \in RatioDisplayPars
    /\ scaled_width = 0
    /\ scaled_height = 0
    /\ ratio_ret = "none"

\* set_caps asks for the size to display the negotiated video at.
CalculateDisplayRatio ==
    /\ ratio_ret = "none"
    /\ LET r == gst_kms_sink_calculate_display_ratio(can_scale, video_width,
                    video_height, video_par, dpy_par)
       IN  /\ ratio_ret' = IF r.ret THEN "TRUE" ELSE "FALSE"
           /\ scaled_width' = IF r.ret THEN r.width ELSE scaled_width
           /\ scaled_height' = IF r.ret THEN r.height ELSE scaled_height
    /\ UNCHANGED <<video_width, video_height, video_par, dpy_par>>
    /\ UNCHANGED <<scale_vars, sink_vars, rect_vars, hw_vars>>

NextDisplayRatio == CalculateDisplayRatio

SpecDisplayRatio == InitDisplayRatio /\ [][NextDisplayRatio]_vars

\* The display aspect ratio of the call's inputs.
DisplayDar ==
    gst_video_calculate_display_ratio(video_width, video_height,
        video_par[1], video_par[2], dpy_par[1], dpy_par[2])

\* scaled_width * dar_d = scaled_height * dar_n
ExactRatio ==
    /\ scaled_width >= 0
    /\ scaled_height >= 0
    /\ Mul64(scaled_width, DisplayDar.d) = Mul64(scaled_height, DisplayDar.n)

(* C25: with scaling enabled and a display ratio dar_n/dar_d, when the   *)
(* video height is a multiple of dar_d the result keeps the video height, *)
(* otherwise when the video width is a multiple of dar_n it keeps the     *)
(* video width, and in both cases scaled_width * dar_d equals             *)
(* scaled_height * dar_n; every successful call keeps at least one of the *)
(* two video dimensions; with scaling disabled both are returned          *)
(* unchanged.                                                             *)
C25_DisplayRatioSizing ==
    (ratio_ret # "none") =>
        /\ (can_scale /\ ratio_ret = "TRUE"
               /\ video_height % DisplayDar.d = 0) =>
               (scaled_height = video_height /\ ExactRatio)
        /\ (can_scale /\ ratio_ret = "TRUE"
               /\ video_height % DisplayDar.d # 0
               /\ video_width % DisplayDar.n = 0) =>
               (scaled_width = video_width /\ ExactRatio)
        /\ (ratio_ret = "TRUE") =>
               (scaled_width = video_width \/ scaled_height = video_height)
        /\ (~can_scale) =>
               /\ ratio_ret = "TRUE"
               /\ scaled_width = video_width
               /\ scaled_height = video_height

(* ------------------------------------------------------------------ *)
(* The KMS sink: the render rectangle                                   *)
(* ------------------------------------------------------------------ *)

\* The modes of the connector, which are also the sizes of the videos and
\* of the rectangles the application asks for, and the positions it asks
\* for.
RectSizes == {<<640, 480>>, <<1920, 1080>>}
RectOffsets == {0, 16}

\* What set_render_rectangle is called with besides the sizes above: the
\* request for the whole display and a rectangle without width.
RectRequests == RectSizes \cup {<<-1, -1>>, <<0, 480>>}

InitRect ==
    /\ ScalerIdle
    /\ SinkConstructed(FALSE)
    /\ \E scale \in BOOLEAN, modeset \in BOOLEAN :
          RectConstructed(scale, modeset)
    /\ RatioIdle
    /\ HwIdle

\* gst_kms_sink_start, from the mode of the CRTC on: the display size is
\* taken from it, an unset render rectangle becomes the whole display and
\* the pending rectangle starts as a copy. A CRTC without a valid mode
\* turns mode setting on.
Start ==
    /\ Running
    /\ hdisplay = 0
    /\ \E mode \in RectSizes, mode_valid \in BOOLEAN :
          LET rect == IF render_rect.w = 0 \/ render_rect.h = 0
                      THEN Rect(0, 0, mode[1], mode[2])
                      ELSE render_rect
          IN  /\ modesetting_enabled' = (modesetting_enabled \/ ~mode_valid)
              /\ hdisplay' = mode[1]
              /\ vdisplay' = mode[2]
              /\ render_rect' = rect
              /\ pending_rect' = rect
    /\ UNCHANGED <<can_scale, reconfigure>>
    /\ UNCHANGED <<scale_vars, sink_vars, ratio_vars, hw_vars>>

\* gst_kms_sink_set_render_rectangle (overlay, x, y, width, height)
SetRenderRectangle ==
    /\ Running
    /\ \E x \in RectOffsets, y \in RectOffsets, size \in RectRequests :
          LET whole  == size[1] = -1 /\ size[2] = -1
              width  == IF whole THEN hdisplay ELSE size[1]
              height == IF whole THEN vdisplay ELSE size[2]
              rect   == Rect(IF whole THEN 0 ELSE x, IF whole THEN 0 ELSE y,
                             width, height)
          IN  IF width <= 0 \/ height <= 0
              THEN UNCHANGED <<pending_rect, render_rect, reconfigure>>
              ELSE /\ pending_rect' = rect
                   /\ IF can_scale \/ (render_rect.w = width
                                        /\ render_rect.h = height)
                      THEN render_rect' = rect /\ UNCHANGED reconfigure
                      ELSE reconfigure' = TRUE /\ UNCHANGED render_rect
    /\ UNCHANGED <<can_scale, modesetting_enabled, hdisplay, vdisplay>>
    /\ UNCHANGED <<scale_vars, sink_vars, ratio_vars, hw_vars>>

\* gst_kms_sink_set_property, PROP_CAN_SCALE.
SetCanScale ==
    /\ Running
    /\ can_scale' \in BOOLEAN
    /\ UNCHANGED <<modesetting_enabled, hdisplay, vdisplay, render_rect,
                   pending_rect, reconfigure>>
    /\ UNCHANGED <<scale_vars, sink_vars, ratio_vars, hw_vars>>

\* configure_mode_setting (self, vinfo) for a video of the given size:
\* "no_mode" when the connector has no mode of that size, else the mode is
\* set and the display size and render rectangle follow it, whether
\* drmModeSetCrtc succeeded ("ok") or not ("failed").
configure_mode_setting(size, outcome) ==
    IF outcome = "no_mode"
    THEN [ret |-> FALSE, hdisplay |-> hdisplay, vdisplay |-> vdisplay,
          render_rect |-> render_rect]
    ELSE [ret |-> outcome = "ok", hdisplay |-> size[1], vdisplay |-> size[2],
          render_rect |-> Rect(0, 0, size[1], size[2])]

\* gst_kms_sink_set_caps for square-pixel caps of the given size: the
\* display size is computed, the mode is set when mode setting is enabled
\* or the video is alternate-interlaced, and a pending renegotiation is
\* closed by taking over the pending rectangle.
SetCaps ==
    /\ Running
    /\ hdisplay # 0
    /\ \E size \in RectSizes, dpy \in RatioDisplayPars,
          alternate \in BOOLEAN, outcome \in {"ok", "no_mode", "failed"} :
          LET ratio == gst_kms_sink_calculate_display_ratio(can_scale,
                           size[1], size[2], <<1, 1>>, dpy)
              mode  == IF modesetting_enabled \/ alternate
                       THEN configure_mode_setting(size, outcome)
                       ELSE [ret |-> TRUE, hdisplay |-> hdisplay,
                             vdisplay |-> vdisplay,
                             render_rect |-> render_rect]
          IN  IF ~ratio.ret \/ ratio.width <= 0 \/ ratio.height <= 0
              THEN UNCHANGED <<hdisplay, vdisplay, render_rect, reconfigure>>
              ELSE /\ hdisplay' = mode.hdisplay
                   /\ vdisplay' = mode.vdisplay
                   /\ IF mode.ret /\ reconfigure
                      THEN /\ reconfigure' = FALSE
                           /\ render_rect' = pending_rect
                      ELSE /\ render_rect' = mode.render_rect
                           /\ UNCHANGED reconfigure
    /\ UNCHANGED <<can_scale, modesetting_enabled, pending_rect>>
    /\ UNCHANGED <<scale_vars, sink_vars, ratio_vars, hw_vars>>

NextRect ==
    Start \/ Stop \/ SetRenderRectangle \/ Expose \/ SetCaps \/ SetCanScale

SpecRect == InitRect /\ [][NextRect]_vars

(* C26: whenever expose copies pending_rect into render_rect (can_scale   *)
(* false and no renegotiation pending) the two rectangles have the same   *)
(* width and height, so the expose changes only the position of the       *)
(* render rectangle, never its size.                                      *)
C26_ExposeKeepsSize ==
    [][(Expose /\ ~can_scale /\ ~reconfigure) =>
          /\ pending_rect.w = render_rect.w
          /\ pending_rect.h = render_rect.h
          /\ render_rect'.w = render_rect.w
          /\ render_rect'.h = render_rect.h]_vars

(* ------------------------------------------------------------------ *)
(* C27: the references behind the buffers the KMS sink keeps            *)
(* ------------------------------------------------------------------ *)

\* Each kept buffer is backed by a reference the sink holds.
Backed ==
    /\ last_buffer # 0 => refs[last_buffer] >= 1
    /\ previous_last_buffer # 0 => refs[previous_last_buffer] >= 1

(* C27: after any sequence of frames shown, redraws and drains, each of   *)
(* last_buffer and previous_last_buffer that is not NULL is backed by a   *)
(* reference the sink still owns, and a redraw (show_frame without a      *)
(* buffer, as expose issues it) leaves the number of references the sink  *)
(* holds unchanged.                                                       *)
C27_BufferReferences ==
    [][/\ Running' => Backed'
       /\ Expose => (Running' /\ refs' = refs)]_vars

(* ------------------------------------------------------------------ *)
(* The scaler hardware: transform_frame under the time-division lock    *)
(* ------------------------------------------------------------------ *)

\* The geometries (format, width, height) of the frames the instances
\* are given.
Geometries == {VideoInfo("NV12", 640, 480), VideoInfo("NV12", 1920, 1080)}

InitHw ==
    /\ ScalerIdle
    /\ SinkConstructed(FALSE)
    /\ RectConstructed(TRUE, FALSE)
    /\ RatioIdle
    /\ HwIdle

\* The frame transform_frame registers with an IP (the output frame with
\* the write IP, the input frame with the read IP), the cached info
\* register_dmabuf compares it with (cur_vinfo), and the positions of a
\* call inside the two registrations and unregistrations.
FrameOf(i, ip) == IF ip = "fbrd" THEN frames[i].in ELSE frames[i].out
cur_vinfo(ip) == IF ip = "fbrd" THEN in_vinfo ELSE out_vinfo
AtConfigure(ip) == IF ip = "fbrd" THEN "configure_fbrd" ELSE "configure_fbwr"
AtCapture(ip) == IF ip = "fbrd" THEN "capture_fbrd" ELSE "capture_fbwr"
AtEnable(ip) == IF ip = "fbrd" THEN "enable_fbrd" ELSE "enable_fbwr"
AfterRegister(ip) == IF ip = "fbrd" THEN "poll" ELSE "configure_fbrd"
AtUnregister(ip) ==
    IF ip = "fbrd" THEN "unregister_fbrd" ELSE "unregister_fbwr"
AfterUnregister(ip) == IF ip = "fbrd" THEN "unlock" ELSE "unregister_fbrd"

\* CHECK_ERROR: a negative return of the ioctl leaves the function.
CHECK_ERROR(iret, continue) == IF iret < 0 THEN "error" ELSE continue

Ioctl(ip, request, info, iret) ==
    [ip |-> ip, request |-> request, info |-> info, iret |-> iret]

\* The base transform calls gst_xlnx_video_scale_transform_frame on
\* instance i with an input and an output frame; the call starts by asking
\* for the lock.
TransformFrame(i) ==
    /\ hw_pc[i] = "idle"
    /\ \E in \in Geometries, out \in Geometries :
          frames' = [frames EXCEPT ![i] = [in |-> in, out |-> out]]
    /\ hw_pc' = [hw_pc EXCEPT ![i] = "lock"]
    /\ flow_ret' = [flow_ret EXCEPT ![i] = "none"]
    /\ UNCHANGED <<time_division_lock, in_vinfo, out_vinfo, fb_configured,
                   last_ioctl, transfer>>
    /\ UNCHANGED <<scale_vars, sink_vars, rect_vars, ratio_vars>>

\* gst_xlnx_video_scale_time_division_lock: g_mutex_lock on the class's
\* mutex returns once the mutex is free.
TimeDivisionLock(i) ==
    /\ hw_pc[i] = "lock"
    /\ time_division_lock = 0
    /\ time_division_lock' = i
    /\ hw_pc' = [hw_pc EXCEPT ![i] = "configure_vpss"]
    /\ UNCHANGED <<in_vinfo, out_vinfo, frames, flow_ret, fb_configured,
                   last_ioctl, transfer>>
    /\ UNCHANGED <<scale_vars, sink_vars, rect_vars, ratio_vars>>

\* xlnx_video_scale_configure_vpss: the VPSS is configured and enabled
\* when either frame differs from the cached infos; either ioctl may fail.
ConfigureVpss(i) ==
    /\ hw_pc[i] = "configure_vpss"
    /\ \E iret \in {0, -1} :
          /\ (frames[i].in = in_vinfo /\ frames[i].out = out_vinfo) =>
                iret = 0
          /\ hw_pc' = [hw_pc EXCEPT ![i] = CHECK_ERROR(iret, "configure_fbwr")]
    /\ UNCHANGED <<time_division_lock, in_vinfo, out_vinfo, frames, flow_ret,
                   fb_configured, last_ioctl, transfer>>
    /\ UNCHANGED <<scale_vars, sink_vars, rect_vars, ratio_vars>>

\* xlnx_video_scale_register_dmabuf up to XSET_FB_CONFIGURE: a buffer that
\* is not a dmabuf ends the function; a frame that differs from the cached
\* info is cached and the frame-buffer IP is configured for it.
RegisterConfigure(i, ip) ==
    /\ hw_pc[i] = AtConfigure(ip)
    /\ \E dmabuf \in BOOLEAN, iret \in {0, -1} :
          IF ~dmabuf
          THEN /\ iret = 0
               /\ hw_pc' = [hw_pc EXCEPT ![i] = "error"]
               /\ UNCHANGED <<in_vinfo, out_vinfo, fb_configured, last_ioctl>>
          ELSE IF FrameOf(i, ip) # cur_vinfo(ip)
          THEN /\ in_vinfo' = IF ip = "fbrd" THEN FrameOf(i, ip) ELSE in_vinfo
               /\ out_vinfo' = IF ip = "fbwr" THEN FrameOf(i, ip)
                               ELSE out_vinfo
               /\ last_ioctl' = Ioctl(ip, "XSET_FB_CONFIGURE", FrameOf(i, ip),
                                      iret)
               /\ fb_configured' =
                     IF iret < 0 THEN fb_configured
                     ELSE [fb_configured EXCEPT ![ip] = FrameOf(i, ip)]
               /\ hw_pc' = [hw_pc EXCEPT ![i] = CHECK_ERROR(iret, AtCapture(ip))]
          ELSE /\ iret = 0
               /\ hw_pc' = [hw_pc EXCEPT ![i] = AtCapture(ip)]
               /\ UNCHANGED <<in_vinfo, out_vinfo, fb_configured, last_ioctl>>
    /\ UNCHANGED <<time_division_lock, frames, flow_ret, transfer>>
    /\ UNCHANGED <<scale_vars, sink_vars, rect_vars, ratio_vars>>

\* xlnx_video_scale_register_dmabuf, XSET_FB_CAPTURE: the frame's dmabuf
\* is handed to the IP.
RegisterCapture(i, ip) ==
    /\ hw_pc[i] = AtCapture(ip)
    /\ \E iret \in {0, -1} :
          /\ last_ioctl' = Ioctl(ip, "XSET_FB_CAPTURE", FrameOf(i, ip), iret)
          /\ hw_pc' = [hw_pc EXCEPT ![i] = CHECK_ERROR(iret, AtEnable(ip))]
    /\ UNCHANGED <<time_division_lock, in_vinfo, out_vinfo, frames, flow_ret,
                   fb_configured, transfer>>
    /\ UNCHANGED <<scale_vars, sink_vars, rect_vars, ratio_vars>>

\* xlnx_video_scale_register_dmabuf, XSET_FB_ENABLE_SNGL: the IP is
\* started for one frame. Once the read IP runs the transfer is under way
\* and will be found busy, complete or failed.
RegisterEnable(i, ip) ==
    /\ hw_pc[i] = AtEnable(ip)
    /\ \E iret \in {0, -1} :
          /\ last_ioctl' = Ioctl(ip, "XSET_FB_ENABLE_SNGL", NoInfo, iret)
          /\ hw_pc' = [hw_pc EXCEPT ![i] = CHECK_ERROR(iret, AfterRegister(ip))]
          /\ IF ip = "fbrd" /\ iret = 0
             THEN transfer' \in {"busy", "done", "failed"}
             ELSE UNCHANGED transfer
    /\ UNCHANGED <<time_division_lock, in_vinfo, out_vinfo, frames, flow_ret,
                   fb_configured>>
    /\ UNCHANGED <<scale_vars, sink_vars, rect_vars, ratio_vars>>

\* What XSET_FB_POLL returns: 0 on completion, a positive value while the
\* transfer is busy, a negative value for a transfer that failed.
PollReturn == IF transfer = "done" THEN 0
              ELSE IF transfer = "busy" THEN 1 ELSE -1

\* One round of "while (iret) iret = ioctl (fbrd_fd, XSET_FB_POLL, NULL)":
\* the loop is left when the ioctl returns 0. A busy transfer has completed
\* or failed by the next poll; a failed one stays failed.
Poll(i) ==
    /\ hw_pc[i] = "poll"
    /\ last_ioctl' = Ioctl("fbrd", "XSET_FB_POLL", NoInfo, PollReturn)
    /\ hw_pc' = [hw_pc EXCEPT ![i] = IF PollReturn # 0 THEN "poll"
                                     ELSE "unregister_fbwr"]
    /\ IF transfer = "busy" THEN transfer' \in {"done", "failed"}
       ELSE IF transfer = "done" THEN transfer' = "none"
       ELSE UNCHANGED transfer
    /\ UNCHANGED <<time_division_lock, in_vinfo, out_vinfo, frames, flow_ret,
                   fb_configured>>
    /\ UNCHANGED <<scale_vars, sink_vars, rect_vars, ratio_vars>>

\* xlnx_video_scale_unregister_dmabuf: XSET_FB_RELEASE, then
\* XSET_FB_DISABLE unless the release failed.
UnregisterDmabuf(i, ip) ==
    /\ hw_pc[i] = AtUnregister(ip)
    /\ \E release \in {0, -1}, disable \in {0, -1} :
          /\ release < 0 => disable = 0
          /\ last_ioctl' = IF release < 0
                           THEN Ioctl(ip, "XSET_FB_RELEASE", NoInfo, release)
                           ELSE Ioctl(ip, "XSET_FB_DISABLE", NoInfo, disable)
          /\ hw_pc' = [hw_pc EXCEPT ![i] =
                          CHECK_ERROR(IF release < 0 THEN release ELSE disable,
                                      AfterUnregister(ip))]
    /\ UNCHANGED <<time_division_lock, in_vinfo, out_vinfo, frames, flow_ret,
                   fb_configured, transfer>>
    /\ UNCHANGED <<scale_vars, sink_vars, rect_vars, ratio_vars>>

\* The end of transform_frame on the error path keeping the mutex.
ReturnHoldingLock(i) ==
    /\ hw_pc[i] \in {"unlock", "error"}
    /\ time_division_lock' = IF hw_pc[i] = "error" THEN time_division_lock
                             ELSE 0
    /\ flow_ret' = [flow_ret EXCEPT ![i] =
                       IF hw_pc[i] = "error" THEN "GST_FLOW_ERROR"
                       ELSE "GST_FLOW_OK"]
    /\ hw_pc' = [hw_pc EXCEPT ![i] = "idle"]
    /\ frames' = [frames EXCEPT ![i] = NoFrames]
    /\ UNCHANGED <<in_vinfo, out_vinfo, fb_configured, last_ioctl, transfer>>
    /\ UNCHANGED <<scale_vars, sink_vars, rect_vars, ratio_vars>>

\* The end of transform_frame: the mutex is released and GST_FLOW_OK is
\* returned, or GST_FLOW_ERROR from the error label.
Return(i) ==
    /\ hw_pc[i] \in {"unlock", "error"}
    /\ time_division_lock' = 0
    /\ flow_ret' = [flow_ret EXCEPT ![i] =
                       IF hw_pc[i] = "error" THEN "GST_FLOW_ERROR"
                       ELSE "GST_FLOW_OK"]
    /\ hw_pc' = [hw_pc EXCEPT ![i] = "idle"]
    /\ frames' = [frames EXCEPT ![i] = NoFrames]
    /\ UNCHANGED <<in_vinfo, out_vinfo, fb_configured, last_ioctl, transfer>>
    /\ UNCHANGED <<scale_vars, sink_vars, rect_vars, ratio_vars>>

\* The steps of instance i once it holds the lock.
UnderLock(i) ==
    \/ ConfigureVpss(i)
    \/ \E ip \in FrameBufferIPs : RegisterConfigure(i, ip)
    \/ \E ip \in FrameBufferIPs : RegisterCapture(i, ip)
    \/ \E ip \in FrameBufferIPs : RegisterEnable(i, ip)
    \/ Poll(i)
    \/ \E ip \in FrameBufferIPs : UnregisterDmabuf(i, ip)
    \/ Return(i)

NextHw ==
    \E i \in Instances :
        TransformFrame(i) \/ TimeDivisionLock(i) \/ UnderLock(i)

SpecHw == InitHw /\ [][NextHw]_vars

(* ------------------------------------------------------------------ *)
(* C28: the time-division lock                                          *)
(* ------------------------------------------------------------------ *)

\* Instance i is between VPSS configuration and its return.
InHardware(i) == hw_pc[i] \notin {"idle", "lock"}

(* C28: for any interleaving of transform_frame calls of several          *)
(* instances, at most one call at a time is between VPSS configuration    *)
(* and frame-buffer unregistration, that call holds the class-wide lock,  *)
(* and no call has returned, with success or with an error, while still   *)
(* holding the lock.                                                      *)
C28_TimeDivision ==
    /\ Cardinality({i \in Instances : InHardware(i)}) <= 1
    /\ \A i \in Instances :
          /\ InHardware(i) => time_division_lock = i
          /\ hw_pc[i] \in {"idle", "lock"} => time_division_lock # i

\* One instance, which took the lock after another's call ended with an
\* error, polls the hardware while a third call waits for the lock or the
\* other instance is back from its failed call.
C28_Witness ==
    \E i \in Instances, j \in Instances :
        /\ i # j
        /\ hw_pc[i] = "poll"
        /\ time_division_lock = i
        /\ hw_pc[j] = "idle"
        /\ flow_ret[j] = "GST_FLOW_ERROR"

(* ------------------------------------------------------------------ *)
(* C29: progress of transform_frame                                     *)
(* ------------------------------------------------------------------ *)

\* The thread of an instance inside transform_frame keeps running, every
\* ioctl returning, and an instance that waits for the mutex gets it if it
\* is free again and again.
SpecHwFair ==
    /\ InitHw
    /\ [][NextHw]_vars
    /\ \A i \in Instances :
          WF_vars(UnderLock(i)) /\ SF_vars(TimeDivisionLock(i))

(* C29: every transform_frame call eventually returns and releases the    *)
(* time-division lock, so that a waiting instance eventually gets the     *)
(* lock, also when XSET_FB_POLL keeps returning an error instead of       *)
(* completion.                                                            *)
C29_Progress ==
    \A i \in Instances : (hw_pc[i] # "idle") ~> (hw_pc[i] = "idle")

(* ------------------------------------------------------------------ *)
(* C30: the cached video infos and the frame-buffer configuration       *)
(* ------------------------------------------------------------------ *)

(* C30: whenever a frame is handed to a frame-buffer IP with              *)
(* XSET_FB_CAPTURE, the latest successful XSET_FB_CONFIGURE on that IP    *)
(* was issued with that frame's width, height and format, and the cached  *)
(* input and output video infos never record a geometry whose configure   *)
(* ioctl failed.                                                          *)
C30_ConfigurationCache ==
    /\ (last_ioctl.request = "XSET_FB_CAPTURE") =>
           fb_configured[last_ioctl.ip] = last_ioctl.info
    /\ \A ip \in FrameBufferIPs :
           (cur_vinfo(ip) # NoInfo) => fb_configured[ip] = cur_vinfo(ip)

====
